---- MODULE Spec2Model ----
(***************************************************************************)
(* A model of kraken-proxy: the request pipeline of MitmProxy              *)
(* (MitmProxy.RequestHandler, writerWrapper, the metrics adapter) composed *)
(* with a MitmHijacker, which is either an arbitrary implementation of the *)
(* interface or the DockerRegistryHijacker with its redirect cascade.      *)
(*                                                                         *)
(* Strings are sequences of tokens: "/v2/u/blobs/1" is                     *)
(* <<"/", "v2", "/", "u", "/", "blob", "s", "/", "1">>.  Every literal the *)
(* code compares against or substitutes ("/", "/v2", "manifest", "blob",   *)
(* "s", "%r", "%t", ".", " ") is a whole number of tokens.                 *)
(***************************************************************************)
EXTENDS Integers, Sequences, FiniteSets, TLC

\* ------------------------------------------------------------------------
\* Bounds of the model
\* ------------------------------------------------------------------------

\* the longest response body, in chunks
MaxChunks == 2

\* the most writes of a default upstream handler for one request
MaxUpstreamWrites == 2

\* the most calls of Start and Stop
MaxCalls == 3

\* the most requests handled at the same time
MaxRequests == 2

\* the most ticks of the clock
MaxTime == 1

\* ------------------------------------------------------------------------
\* Constants of the program
\* ------------------------------------------------------------------------

\* a kilobyte that lost a zero
oneKbShort == 100

oneKb == 1000

HijackedRequestCounter == <<"mitm.hijacked">>
ProxiedRequestCounter == <<"mitm.proxied">>
HijackedRequestTransferPace == <<"mitm.hijacked.pace">>
ProxiedRequestTransferPace == <<"mitm.proxied.pace">>
HijackingErrorsCounter == <<"mitm.hijacked.errors">>

StatusOK == 200
StatusAccepted == 202
StatusNotFound == 404

\* ------------------------------------------------------------------------
\* Values
\* ------------------------------------------------------------------------

\* a Go error value: nil, or some error
Errors == {"nil", "error"}

\* the errors of an attempt on a registry: of Authenticate and of httputil.Get
AuthError == "authenticate error"
GetError == "get error"

\* the error of httputil.Get for an answer whose status is not 200
StatusError == "status error"

\* the sizes of the chunks a body is read or written in
ChunkSizes == {1, 1000}

Bodies == UNION {[1..n -> ChunkSizes] : n \in 0..MaxChunks}

\* http.Header: a map from keys to lists of values
NoHeader == << >>
BraveHeader == [brave |-> <<"new_world">>]
CoucouHeader == [coucou |-> <<"toi">>]

\* a *http.Response; Body is the chunks that reading it gives before it ends,
\* with io.EOF or with an error
NoResponse == [isNil |-> TRUE]
Responses == [isNil : {FALSE}, StatusCode : {StatusOK, StatusNotFound},
              Header : {NoHeader, BraveHeader}, Body : Bodies, URL : {<< >>}]

\* the responses httputil.Get gives for url when it returns no error
GetResponses(url) == [isNil : {FALSE}, StatusCode : {StatusOK},
                      Header : {NoHeader, BraveHeader}, Body : Bodies,
                      URL : {url}]

\* time.Since(startedAt), in microseconds
ElapsedValues == {1, 3000}

\* ------------------------------------------------------------------------
\* Strings
\* ------------------------------------------------------------------------

RECURSIVE TrimSpace(_)
\* strings.TrimSpace
TrimSpace(s) ==
    IF s = << >> THEN s
    ELSE IF Head(s) = " " THEN TrimSpace(Tail(s))
    ELSE IF s[Len(s)] = " " THEN TrimSpace(SubSeq(s, 1, Len(s) - 1))
    ELSE s

RECURSIVE TrimRight(_, _)
\* strings.TrimRight(s, cutset) for a cutset of one token
TrimRight(s, c) ==
    IF s # << >> /\ s[Len(s)] = c THEN TrimRight(SubSeq(s, 1, Len(s) - 1), c)
    ELSE s

\* strings.HasPrefix
HasPrefix(s, prefix) ==
    Len(s) >= Len(prefix) /\ SubSeq(s, 1, Len(prefix)) = prefix

RECURSIVE ReplaceAll(_, _, _)
\* strings.ReplaceAll(s, old, new) for an old of one token
ReplaceAll(s, old, new) ==
    IF s = << >> THEN s
    ELSE (IF Head(s) = old THEN new ELSE <<Head(s)>>) \o ReplaceAll(Tail(s), old, new)

\* ------------------------------------------------------------------------
\* State
\* ------------------------------------------------------------------------

VARIABLES
    hijackerKind,  \* MitmProxy.hijacker: "generic" or "docker"
    sink,          \* MitmProxy.statsdClient != nil
    pc,            \* where RequestHandler is for the current request
    request,       \* the *http.Request
    nameMode,      \* how a generic hijacker transforms metric names
    returned,      \* what the hijacker returned: hijacked, response, err
    hijacked,      \* RequestHandler's local hijacked
    wrapper,       \* the writerWrapper: written, statusCode
    writer,        \* the client's http.ResponseWriter and the calls it got
    bodyPos,       \* the chunks of response.Body read so far by io.Copy
    bodyClosed,    \* the number of calls of response.Body.Close
    upstreamReqs,  \* the requests upstream.ServeHTTP was invoked with
    metrics,       \* the calls the statsd sink received, and what it returned
    transforms,    \* the names hijacker.TransformMetricName was called with
    config,        \* Config.Registries, as NewConfig read it
    registries,    \* DockerRegistryHijacker.registries
    cascade,       \* the locals of DockerRegistryHijacker.RequestHandler
    authCalls,     \* the calls of Authenticate: address, repository, err
    getCalls,      \* the calls of httputil.Get: url, headers, status, err
    server,        \* MitmProxy.server: 0 for nil, or the number of a server
    servers,       \* the http.Servers that start created
    invocations,   \* the calls of start and Stop, and where each is
    listeningChan, \* the channel given to start: how often and by whom closed
    handlers,      \* the locals of the RequestHandlers of concurrent requests
    statsd,        \* the calls the sink received, by the request they are for
    now            \* the clock that time.Now and time.Since read

\* the request that the proxy handles, with the hijacker and the sink
requestVars == <<config, hijackerKind, sink, pc, request, nameMode, returned,
                 hijacked, wrapper, writer, bodyPos, bodyClosed, upstreamReqs,
                 metrics, transforms, registries, cascade, authCalls, getCalls>>

\* the lifecycle of the proxy
lifecycleVars == <<server, servers, invocations, listeningChan>>

\* the requests that the proxy handles at the same time
concurrentVars == <<handlers, statsd, now>>

proxyVars == <<lifecycleVars, concurrentVars>>

vars == <<requestVars, proxyVars>>

pipelineVars == <<hijacked, bodyPos, bodyClosed, upstreamReqs, metrics,
                  transforms>>
configVars == <<config, hijackerKind, sink, registries>>

\* hosts and registry addresses
DockerIo == <<"d", ".", "io">>
MirrorDockerIo == <<"m", ".", "d", ".", "io">>
QuayIo == <<"q", ".", "io">>
RedirectA == <<"a", ":", "80">>
RedirectB == <<"b", ":", "80">>
RedirectC == <<"c", ":", "80">>

DoubleMeHeader == [doubleme |-> <<"28", "29">>]

\* the requests the model draws from
Methods == {"GET", "POST"}
Hosts == {DockerIo, MirrorDockerIo, QuayIo}
Paths == {<<"/", "ok">>,
          <<"/", "v2", "/">>,
          <<"/", "v2", "/", "u", "/", "blob", "s", "/", "18">>,
          <<"/", "v2", "/", "u", "%t", "/", "blob", "s", "/", "18">>,
          <<"/", "v2", "/", "u", "/", "manifest", "s", "/", "18", "/">>,
          <<"/", "v2", "/", "u", "/", "tags">>}
RequestHeaders == {NoHeader, DoubleMeHeader}

\* the paths of the handshake, of a blob and of a manifest
HandshakePath == <<"/", "v2", "/">>
BlobPath == <<"/", "v2", "/", "u", "/", "blob", "s", "/", "18">>
ManifestPath == <<"/", "v2", "/", "u", "/", "manifest", "s", "/", "18", "/">>

\* the requests a DockerRegistryHijacker is given: GET of every path but
\* the manifest on the first host, of the handshake, a blob with a header
\* of two values and the manifest on the second, and the handshake and a
\* blob for the third host and for the other method
DockerRequests ==
    {r \in [Method : Methods, Host : Hosts, Path : Paths, Header : RequestHeaders] :
        /\ r.Method # "GET" => r.Host = DockerIo
        /\ (r.Method # "GET" \/ r.Host # DockerIo) =>
              r.Path \in {HandshakePath, BlobPath, ManifestPath}
        /\ r.Path = ManifestPath => (r.Method = "GET" /\ r.Host = MirrorDockerIo)
        /\ r.Header # NoHeader <=> (r.Host = MirrorDockerIo /\ r.Path = BlobPath)}

\* a hijacker that is not told apart by the request gets one request
GenericRequests == {[Method |-> "GET", Host |-> DockerIo,
                     Path |-> <<"/", "ok">>, Header |-> NoHeader]}

\* no request is being handled
NoRequest == [isNil |-> TRUE]

Requests(kind) == IF kind = "docker" THEN DockerRequests ELSE GenericRequests

\* a compiled *regexp.Regexp is the set of hosts it matches; nil is NoRegex
NoRegex == [isNil |-> TRUE]
DockerRegex == [isNil |-> FALSE, matches |-> {MirrorDockerIo}]

\* the rule lists a DockerRegistryHijacker is built with
OneRule == <<[Address |-> DockerIo, matchingRegex |-> NoRegex,
              redirects |-> <<[Address |-> RedirectA, rewriteRepositories |-> << >>],
                              [Address |-> RedirectB, rewriteRepositories |-> <<"%r", ":", "%t">>],
                              [Address |-> RedirectC, rewriteRepositories |-> << >>]>>]>>
TwoRules == <<[Address |-> DockerIo, matchingRegex |-> DockerRegex,
               redirects |-> <<[Address |-> RedirectA, rewriteRepositories |-> << >>]>>],
              [Address |-> MirrorDockerIo, matchingRegex |-> NoRegex,
               redirects |-> <<[Address |-> RedirectB, rewriteRepositories |-> << >>]>>]>>
RuleLists == {<< >>, OneRule, TwoRules}

\* Registry.MatchingRegex: the empty string, a pattern for the second host
\* and a pattern that regexp.Compile rejects
NoPattern == << >>
MirrorPattern == <<"^m\\.d\\.io$">>
BadPattern == <<"(">>

\* regexp.Compile
Compile(pattern) ==
    IF pattern = BadPattern THEN [regex |-> NoRegex, err |-> "error"]
    ELSE [regex |-> [isNil |-> FALSE,
                     matches |-> {host \in Hosts : pattern = MirrorPattern
                                                     /\ host = MirrorDockerIo}],
          err |-> "nil"]

\* a redirect of the configuration; Security says whether an authenticator
\* can be built from the registrybackend.Config
Redirect(address, rewrite) ==
    [Address |-> address, RewriteRepositories |-> rewrite, Security |-> "ok"]

\* the configurations that buildRegistryWrappers accepts
NoRulesConfig == << >>
OneRuleConfig ==
    <<[Address |-> DockerIo, MatchingRegex |-> NoPattern, Security |-> "ok",
       Redirects |-> <<Redirect(RedirectA, << >>),
                       Redirect(RedirectB, <<"%r", ":", "%t">>),
                       Redirect(RedirectC, << >>)>>]>>
TwoRulesConfig ==
    <<[Address |-> DockerIo, MatchingRegex |-> MirrorPattern, Security |-> "ok",
       Redirects |-> <<Redirect(RedirectA, << >>)>>],
      [Address |-> MirrorDockerIo, MatchingRegex |-> NoPattern, Security |-> "ok",
       Redirects |-> <<Redirect(RedirectB, << >>)>>]>>
EmptyAddressConfig ==
    <<[Address |-> QuayIo, MatchingRegex |-> NoPattern, Security |-> "ok",
       Redirects |-> <<Redirect(<< >>, << >>)>>]>>

\* the configurations that it rejects: a rule without redirects after a
\* good one, a pattern that does not compile, and a registry and a redirect
\* no authenticator can be built for
NoRedirectsConfig ==
    OneRuleConfig \o <<[Address |-> MirrorDockerIo, MatchingRegex |-> NoPattern,
                        Security |-> "ok", Redirects |-> << >>]>>
BadRegexConfig ==
    <<[Address |-> DockerIo, MatchingRegex |-> BadPattern, Security |-> "ok",
       Redirects |-> <<Redirect(RedirectA, << >>)>>]>>
BadRegistryConfig ==
    <<[Address |-> DockerIo, MatchingRegex |-> NoPattern, Security |-> "bad",
       Redirects |-> <<Redirect(RedirectA, << >>)>>]>>
BadRedirectConfig ==
    <<[Address |-> DockerIo, MatchingRegex |-> NoPattern, Security |-> "ok",
       Redirects |-> <<Redirect(RedirectA, << >>),
                       [Redirect(RedirectB, << >>) EXCEPT !.Security = "bad"]>>]>>

Configs == {NoRulesConfig, OneRuleConfig, TwoRulesConfig, EmptyAddressConfig,
            NoRedirectsConfig, BadRegexConfig, BadRegistryConfig,
            BadRedirectConfig}

\* the errors of buildRegistryWrappers
AuthenticatorError == "unable to build authenticator"
NoRedirectsError == "does not configure any redirects"
RegexError == "unable to compile regex"

\* newRegistryClient: the error of authenticatorFactory
newRegistryClient(registryConfig) ==
    IF registryConfig.Security = "bad" THEN AuthenticatorError ELSE "nil"

\* a buildRegistryWrappers that takes a rule without redirects
RegistryErrorAnyRedirects(registry) ==
    IF newRegistryClient(registry) # "nil" THEN newRegistryClient(registry)
    ELSE IF \E j \in 1..Len(registry.Redirects) :
               newRegistryClient(registry.Redirects[j]) # "nil"
    THEN AuthenticatorError
    ELSE IF Len(registry.MatchingRegex) # 0 /\ Compile(registry.MatchingRegex).err # "nil"
    THEN RegexError
    ELSE "nil"

\* the error one round of the loop of buildRegistryWrappers returns with
RegistryError(registry) ==
    IF newRegistryClient(registry) # "nil" THEN newRegistryClient(registry)
    ELSE IF Len(registry.Redirects) = 0 THEN NoRedirectsError
    ELSE IF \E j \in 1..Len(registry.Redirects) :
               newRegistryClient(registry.Redirects[j]) # "nil"
    THEN AuthenticatorError
    ELSE IF Len(registry.MatchingRegex) # 0 /\ Compile(registry.MatchingRegex).err # "nil"
    THEN RegexError
    ELSE "nil"

\* the hijackedRegistry one round of the loop appends
Wrapper(registry) ==
    [Address |-> registry.Address,
     matchingRegex |-> IF Len(registry.MatchingRegex) # 0
                       THEN Compile(registry.MatchingRegex).regex ELSE NoRegex,
     redirects |-> [j \in 1..Len(registry.Redirects) |->
                      [Address |-> registry.Redirects[j].Address,
                       rewriteRepositories |->
                          registry.Redirects[j].RewriteRepositories]]]

\* buildRegistryWrappers: the registries, or the error of the first rule
\* that has one
buildRegistryWrappers(cfg) ==
    IF \E i \in 1..Len(cfg) : RegistryError(cfg[i]) # "nil"
    THEN [registries |-> << >>,
          err |-> RegistryError(cfg[CHOOSE i \in 1..Len(cfg) :
                     /\ RegistryError(cfg[i]) # "nil"
                     /\ \A j \in 1..(i - 1) : RegistryError(cfg[j]) = "nil"])]
    ELSE [registries |-> [i \in 1..Len(cfg) |-> Wrapper(cfg[i])], err |-> "nil"]

NoCascade == [active |-> FALSE]

NameModes == {"same", "padded", "blank"}

\* the locals of a RequestHandler that was not called yet; writes is the
\* bytes that each Write of its writer let out
FreshHandler == [pc |-> "idle", startedAt |-> 0, finishedAt |-> 0,
                 returned |-> [hijacked |-> FALSE, response |-> NoResponse,
                               err |-> "nil"],
                 hijacked |-> FALSE,
                 wrapper |-> [written |-> 0, statusCode |-> 0],
                 bodyPos |-> 0, writes |-> << >>]

\* the requests handled at the same time
RequestIds == 1..MaxRequests

NoReturn == [hijacked |-> FALSE, response |-> NoResponse, err |-> "nil"]

FreshWrapper == [written |-> 0, statusCode |-> 0]

FreshWriter == [header |-> NoHeader, status |-> 0, sent |-> NoHeader,
                body |-> << >>, calls |-> << >>]

\* ------------------------------------------------------------------------
\* The client's http.ResponseWriter, behind the writerWrapper
\* ------------------------------------------------------------------------

\* headers[key] = value for every key of h
SetHeaders(w, by, h) ==
    [w EXCEPT !.header = [k \in (DOMAIN w.header) \cup (DOMAIN h) |->
                              IF k \in DOMAIN h THEN h[k] ELSE w.header[k]],
              !.calls = Append(@, [by |-> by, op |-> "Header", arg |-> h])]

\* the first WriteHeader fixes the status and the headers sent; later ones
\* are superfluous
WriterWriteHeader(w, by, code) ==
    [w EXCEPT !.status = IF @ = 0 THEN code ELSE @,
              !.sent = IF w.status = 0 THEN w.header ELSE @,
              !.calls = Append(@, [by |-> by, op |-> "WriteHeader", arg |-> code])]

\* a Write of n bytes before any WriteHeader sends status 200; nw of the
\* bytes get out
WriterWrite(w, by, n, nw) ==
    [w EXCEPT !.status = IF @ = 0 THEN StatusOK ELSE @,
              !.sent = IF w.status = 0 THEN w.header ELSE @,
              !.body = IF nw > 0 THEN Append(@, [by |-> by, n |-> nw]) ELSE @,
              !.calls = Append(@, [by |-> by, op |-> "Write",
                                  arg |-> [n |-> n, nw |-> nw]])]

\* writerWrapper.WriteHeader
WrapperWriteHeader(wr, code) == [wr EXCEPT !.statusCode = code]

\* a writerWrapper.Write that keeps the bytes of the last Write only
WrapperWriteLast(wr, nw) == [wr EXCEPT !.written = nw]

\* writerWrapper.Write, when the underlying Write returned nw
WrapperWrite(wr, nw) == [wr EXCEPT !.written = @ + nw]

\* what a Write of n bytes may return: all of them, or fewer and an error
WriteResults(n) == {[nw |-> n, err |-> "nil"], [nw |-> n - 1, err |-> "error"]}

\* ------------------------------------------------------------------------
\* DockerRegistryHijacker: the functions RequestHandler calls
\* ------------------------------------------------------------------------

\* routeRegex.FindStringSubmatch(urlPath), for
\* ^/v2/(.+)/(manifest|blob)s/(.+)$ : the ends k of the repository for
\* which the rest of the path matches; the first, greedy group takes the
\* greatest
RouteMatches(urlPath) ==
    {k \in 4..(Len(urlPath) - 5) :
        /\ SubSeq(urlPath, 1, 3) = <<"/", "v2", "/">>
        /\ urlPath[k + 1] = "/"
        /\ urlPath[k + 2] \in {"manifest", "blob"}
        /\ urlPath[k + 3] = "s"
        /\ urlPath[k + 4] = "/"}

\* parseRegistryURLPath
parseRegistryURLPath(urlPath) ==
    IF RouteMatches(urlPath) = {}
    THEN [isRegistryQuery |-> FALSE, queryType |-> "", repository |-> << >>,
          tag |-> << >>]
    ELSE LET k == CHOOSE k \in RouteMatches(urlPath) :
                      \A j \in RouteMatches(urlPath) : j <= k
         IN [isRegistryQuery |-> TRUE, queryType |-> urlPath[k + 2],
             repository |-> SubSeq(urlPath, 4, k),
             tag |-> SubSeq(urlPath, k + 5, Len(urlPath))]

\* rewriteRepository
rewriteRepository(rewriteRepoRule, repository, tag) ==
    IF rewriteRepoRule = << >> THEN repository
    ELSE ReplaceAll(ReplaceAll(rewriteRepoRule, "%r", repository), "%t", tag)

\* whether a rule is one for host
RuleMatches(registry, host) ==
    \/ registry.Address = host
    \/ registry.matchingRegex # NoRegex /\ host \in registry.matchingRegex.matches

\* a matchingRegistry that keeps looking after a rule matched
matchingRegistryLast(regs, host) ==
    IF \E i \in 1..Len(regs) : RuleMatches(regs[i], host)
    THEN CHOOSE i \in 1..Len(regs) :
             /\ RuleMatches(regs[i], host)
             /\ \A j \in (i + 1)..Len(regs) : ~RuleMatches(regs[j], host)
    ELSE 0

\* DockerRegistryHijacker.matchingRegistry: the index of the rule, 0 for nil
matchingRegistry(regs, host) ==
    IF \E i \in 1..Len(regs) : RuleMatches(regs[i], host)
    THEN CHOOSE i \in 1..Len(regs) :
             /\ RuleMatches(regs[i], host)
             /\ \A j \in 1..(i - 1) : ~RuleMatches(regs[j], host)
    ELSE 0

\* a map of the request's headers that keeps the last value of every key
SnapshotHeadersLast(header) ==
    [key \in DOMAIN header |-> header[key][Len(header[key])]]

\* the map of the request's headers: request.Header.Get(key) for every key
SnapshotHeaders(header) == [key \in DOMAIN header |-> header[key][1]]

\* the URL tryRegistry requests
RedirectURL(address, newRepository, queryType, tag) ==
    <<"http://">> \o address \o <<"/", "v2", "/">> \o newRepository
        \o <<"/", queryType, "s", "/">> \o tag

\* a TransformMetricName that suffixes every metric with the host as it is
DockerTransformMetricNameDotted(name, req) ==
    LET newName == name \o <<".">> \o req.Host
        parsed == parseRegistryURLPath(req.Path)
    IN IF parsed.isRegistryQuery
       THEN newName \o <<".", parsed.queryType>>
       ELSE newName

\* DockerRegistryHijacker.TransformMetricName
DockerTransformMetricName(name, req) ==
    IF name # HijackedRequestTransferPace /\ name # ProxiedRequestTransferPace
    THEN name
    ELSE LET newName == name \o <<".">> \o ReplaceAll(req.Host, ".", <<"_">>)
             parsed == parseRegistryURLPath(req.Path)
         IN IF parsed.isRegistryQuery
            THEN newName \o <<".", parsed.queryType>>
            ELSE newName

\* ------------------------------------------------------------------------
\* The metrics adapter
\* ------------------------------------------------------------------------

\* DefaultMitmHijacker.TransformMetricName, and what another hijacker may do
GenericTransformMetricName(name, mode) ==
    IF mode = "same" THEN name
    ELSE IF mode = "padded" THEN <<" ", "transformed_metric", " ">>
    ELSE <<" ">>

\* MitmHijacker.TransformMetricName of the proxy's hijacker
TransformMetricName(name, req, kind, mode) ==
    IF kind = "docker" THEN DockerTransformMetricName(name, req)
    ELSE GenericTransformMetricName(name, mode)

\* a metricName that asks the hijacker without looking at the sink
MetricNameAnySink(name, req, kind, mode, snk) ==
    TrimSpace(TransformMetricName(name, req, kind, mode))

\* MitmProxy.metricName
MetricName(name, req, kind, mode, snk) ==
    IF ~snk THEN << >>
    ELSE TrimSpace(TransformMetricName(name, req, kind, mode))

\* the calls of hijacker.TransformMetricName after MitmProxy.metricName
Transformed(t, name, snk) == IF ~snk THEN t ELSE Append(t, name)

\* MitmProxy.incrementMetricCounter; e is what statsdClient.Inc returns
IncrementMetricCounter(m, name, req, kind, mode, snk, e) ==
    LET metricNameStr == MetricName(name, req, kind, mode, snk)
    IN IF metricNameStr # << >>
       THEN Append(m, [metric |-> name, name |-> metricNameStr,
                       method |-> "Inc", value |-> 1, rate |-> 1, err |-> e])
       ELSE m

\* MitmProxy.reportMetricDuration; e is what statsdClient.TimingDuration
\* returns
ReportMetricDuration(m, name, req, kind, mode, snk, d, e) ==
    LET metricNameStr == MetricName(name, req, kind, mode, snk)
    IN IF metricNameStr # << >>
       THEN Append(m, [metric |-> name, name |-> metricNameStr,
                       method |-> "TimingDuration", value |-> d, rate |-> 1,
                       err |-> e])
       ELSE m

\* ------------------------------------------------------------------------
\* MitmProxy.RequestHandler and the hijackers
\* ------------------------------------------------------------------------

Init ==
    /\ hijackerKind \in {"generic", "docker"}
    /\ sink \in BOOLEAN
    /\ config \in IF hijackerKind = "docker" THEN Configs ELSE {NoRulesConfig}
    /\ registries = << >>
    /\ pc = IF hijackerKind = "docker" THEN "new" ELSE "idle"
    /\ request = NoRequest
    /\ nameMode = "same"
    /\ returned = NoReturn
    /\ hijacked = FALSE
    /\ wrapper = FreshWrapper
    /\ writer = FreshWriter
    /\ bodyPos = 0
    /\ bodyClosed = 0
    /\ upstreamReqs = << >>
    /\ metrics = << >>
    /\ transforms = << >>
    /\ cascade = NoCascade
    /\ authCalls = << >>
    /\ getCalls = << >>
    /\ server = 0
    /\ servers = << >>
    /\ invocations = << >>
    /\ listeningChan = [closes |-> 0, closedBy |-> 0]
    /\ handlers = [r \in RequestIds |-> FreshHandler]
    /\ statsd = [r \in RequestIds |-> << >>]
    /\ now = 0

\* NewDockerRegistryHijacker: the hijacker of the registries, or an error
\* and no hijacker
NewDockerRegistryHijacker ==
    /\ pc = "new"
    /\ LET built == buildRegistryWrappers(config)
       IN IF built.err # "nil"
          THEN /\ registries' = << >>
               /\ pc' = "failed"
          ELSE /\ registries' = built.registries
               /\ pc' = "idle"
    /\ UNCHANGED <<proxyVars, config, hijackerKind, sink, pipelineVars, request, nameMode,
                   returned, wrapper, writer, cascade, authCalls, getCalls>>

\* a request arrives: startedAt, the wrapper, and the call of the hijacker
NewRequest ==
    /\ pc = "idle"
    /\ request' \in Requests(hijackerKind)
    /\ nameMode' \in IF hijackerKind = "generic" THEN NameModes ELSE {"same"}
    /\ pc' = "hijacker"
    /\ UNCHANGED <<proxyVars, configVars, pipelineVars, returned, wrapper, writer, cascade,
                   authCalls, getCalls>>

\* RequestHandler returns, and the proxy waits for the next request
Return ==
    /\ pc = "done"
    /\ request' = NoRequest
    /\ nameMode' = "same"
    /\ returned' = NoReturn
    /\ hijacked' = FALSE
    /\ wrapper' = FreshWrapper
    /\ writer' = FreshWriter
    /\ bodyPos' = 0
    /\ bodyClosed' = 0
    /\ upstreamReqs' = << >>
    /\ metrics' = << >>
    /\ transforms' = << >>
    /\ cascade' = NoCascade
    /\ authCalls' = << >>
    /\ getCalls' = << >>
    /\ pc' = "idle"
    /\ UNCHANGED <<proxyVars, configVars>>

\* a hijacker that replies on the writer itself and returns no response
GenericDirectReply ==
    /\ pc = "hijacker"
    /\ hijackerKind = "generic"
    /\ \E n \in ChunkSizes : \E res \in WriteResults(n) :
         /\ writer' = WriterWrite(WriterWriteHeader(
                          SetHeaders(writer, "hijacker", CoucouHeader),
                          "hijacker", StatusAccepted), "hijacker", n, res.nw)
         /\ wrapper' = WrapperWrite(WrapperWriteHeader(wrapper, StatusAccepted), res.nw)
         /\ returned' = [hijacked |-> TRUE, response |-> NoResponse, err |-> res.err]
    /\ pc' = "returned"
    /\ UNCHANGED <<proxyVars, configVars, pipelineVars, request, nameMode, cascade,
                   authCalls, getCalls>>

\* the response of a hijacker that says it does not hijack, or that it
\* failed
UnusedResponse == [isNil |-> FALSE, StatusCode |-> StatusOK,
                   Header |-> BraveHeader, Body |-> <<1000>>, URL |-> << >>]

\* the triples a hijacker returns: any response or none when it hijacks
\* without an error, and one response or none with any other pair
GenericReturns ==
    {[hijacked |-> TRUE, response |-> r, err |-> "nil"] :
        r \in Responses \cup {NoResponse}}
    \cup [hijacked : BOOLEAN, response : {NoResponse, UnusedResponse},
          err : Errors]

\* a hijacker that leaves the writer alone and returns one of these triples
GenericReturn ==
    /\ pc = "hijacker"
    /\ hijackerKind = "generic"
    /\ returned' \in GenericReturns
    /\ pc' = "returned"
    /\ UNCHANGED <<proxyVars, configVars, pipelineVars, request, nameMode, wrapper,
                   writer, cascade, authCalls, getCalls>>

\* a RequestHandler that does not look at the method of the request
RouteAnyMethod(req, regs) ==
    LET path == TrimRight(req.Path, "/")
    IN IF ~HasPrefix(path, <<"/", "v2">>) THEN "pass"
       ELSE IF matchingRegistry(regs, req.Host) = 0 THEN "pass"
       ELSE IF path = <<"/", "v2">> THEN "handshake"
       ELSE IF ~parseRegistryURLPath(req.Path).isRegistryQuery THEN "pass"
       ELSE "cascade"

\* a RequestHandler that answers the handshake before it looks for a registry
RouteHandshakeFirst(req, regs) ==
    LET path == TrimRight(req.Path, "/")
    IN IF req.Method # "GET" THEN "pass"
       ELSE IF ~HasPrefix(path, <<"/", "v2">>) THEN "pass"
       ELSE IF path = <<"/", "v2">> THEN "handshake"
       ELSE IF matchingRegistry(regs, req.Host) = 0 THEN "pass"
       ELSE IF ~parseRegistryURLPath(req.Path).isRegistryQuery THEN "pass"
       ELSE "cascade"

\* what DockerRegistryHijacker.RequestHandler does with a request: let it
\* through, answer the v2 handshake, or go through the registries
Route(req, regs) ==
    LET path == TrimRight(req.Path, "/")
    IN IF req.Method # "GET" THEN "pass"
       ELSE IF ~HasPrefix(path, <<"/", "v2">>) THEN "pass"
       ELSE IF matchingRegistry(regs, req.Host) = 0 THEN "pass"
       ELSE IF path = <<"/", "v2">> THEN "handshake"
       ELSE IF ~parseRegistryURLPath(req.Path).isRegistryQuery THEN "pass"
       ELSE "cascade"

\* DockerRegistryHijacker.RequestHandler up to the first attempt
DockerRoute ==
    /\ pc = "hijacker"
    /\ hijackerKind = "docker"
    /\ LET route == Route(request, registries)
           parsed == parseRegistryURLPath(request.Path)
       IN CASE route = "pass" ->
                 /\ returned' = [hijacked |-> FALSE, response |-> NoResponse,
                                 err |-> "nil"]
                 /\ pc' = "returned"
                 /\ UNCHANGED <<wrapper, writer, cascade>>
            [] route = "handshake" ->
                 \E res \in WriteResults(2) :
                   /\ writer' = WriterWrite(WriterWriteHeader(writer, "hijacker",
                                                StatusOK), "hijacker", 2, res.nw)
                   /\ wrapper' = WrapperWrite(WrapperWriteHeader(wrapper, StatusOK),
                                              res.nw)
                   /\ returned' = [hijacked |-> TRUE, response |-> NoResponse,
                                   err |-> res.err]
                   /\ pc' = "returned"
                   /\ UNCHANGED cascade
            [] route = "cascade" ->
                 /\ cascade' = [active |-> TRUE,
                                registry |-> matchingRegistry(registries, request.Host),
                                queryType |-> parsed.queryType,
                                repository |-> parsed.repository,
                                tag |-> parsed.tag,
                                requestHeaders |-> SnapshotHeaders(request.Header),
                                next |-> 1]
                 /\ pc' = "cascade"
                 /\ UNCHANGED <<wrapper, writer, returned>>
    /\ UNCHANGED <<proxyVars, configVars, pipelineVars, request, nameMode, authCalls,
                   getCalls>>

\* a loop over registry.redirects from the last one to the first
NextRedirectReversed(registry, c) ==
    registry.redirects[Len(registry.redirects) + 1 - c.next]

\* a loop over registry.redirects that asks the first redirect every time
NextRedirectFirst(registry, c) == registry.redirects[1]

\* the redirect the loop over registry.redirects is at
NextRedirect(registry, c) == registry.redirects[c.next]

\* an httputil.Get that returns the answer of a registry whatever its status
AttemptsNotFoundReturned(auth, get) ==
    {[auth |-> [auth EXCEPT !.err = AuthError], get |-> get, sent |-> FALSE,
      response |-> NoResponse, err |-> AuthError],
     [auth |-> auth, get |-> [get EXCEPT !.err = GetError], sent |-> TRUE,
      response |-> NoResponse, err |-> GetError],
     [auth |-> auth, get |-> [get EXCEPT !.status = StatusNotFound],
      sent |-> TRUE,
      response |-> [isNil |-> FALSE, StatusCode |-> StatusNotFound,
                    Header |-> NoHeader, Body |-> << >>, URL |-> get.url],
      err |-> "nil"]}
    \cup {[auth |-> auth, get |-> [get EXCEPT !.status = r.StatusCode],
           sent |-> TRUE, response |-> r, err |-> "nil"] :
              r \in GetResponses(get.url)}

\* the outcomes of an attempt that authenticates with auth and asks for get
Attempts(auth, get) ==
    {[auth |-> [auth EXCEPT !.err = AuthError], get |-> get, sent |-> FALSE,
      response |-> NoResponse, err |-> AuthError],
     [auth |-> auth, get |-> [get EXCEPT !.err = GetError], sent |-> TRUE,
      response |-> NoResponse, err |-> GetError],
     [auth |-> auth,
      get |-> [get EXCEPT !.status = StatusNotFound, !.err = StatusError],
      sent |-> TRUE, response |-> NoResponse, err |-> StatusError]}
    \cup {[auth |-> auth, get |-> [get EXCEPT !.status = r.StatusCode],
           sent |-> TRUE, response |-> r, err |-> "nil"] :
              r \in GetResponses(get.url)}

\* a tryRegistry that asks the registry for the repository of the request
tryRegistryOriginalInURL(address, rewriteRepoRule, c) ==
    LET newRepository == rewriteRepository(rewriteRepoRule, c.repository, c.tag)
        redirectURL == RedirectURL(address, c.repository, c.queryType, c.tag)
    IN Attempts([address |-> address, repository |-> newRepository, err |-> "nil"],
                [url |-> redirectURL, headers |-> c.requestHeaders, status |-> 0,
                 err |-> "nil"])

\* a tryRegistry that goes on to httputil.Get when Authenticate failed
tryRegistryGetAnyway(address, rewriteRepoRule, c) ==
    LET newRepository == rewriteRepository(rewriteRepoRule, c.repository, c.tag)
        redirectURL == RedirectURL(address, newRepository, c.queryType, c.tag)
        auth == [address |-> address, repository |-> newRepository, err |-> "nil"]
        get == [url |-> redirectURL, headers |-> c.requestHeaders, status |-> 0,
                err |-> "nil"]
    IN {[out EXCEPT !.sent = TRUE, !.get.err = GetError] :
            out \in {o \in Attempts(auth, get) : ~o.sent}}
       \cup {o \in Attempts(auth, get) : o.sent}

\* tryRegistry: what an attempt on a registry does and may return.  sent
\* says whether the attempt got to httputil.Get
tryRegistry(address, rewriteRepoRule, c) ==
    LET newRepository == rewriteRepository(rewriteRepoRule, c.repository, c.tag)
        redirectURL == RedirectURL(address, newRepository, c.queryType, c.tag)
    IN Attempts([address |-> address, repository |-> newRepository, err |-> "nil"],
                [url |-> redirectURL, headers |-> c.requestHeaders, status |-> 0,
                 err |-> "nil"])

\* a tryRegistry that moves the registry it asked to the end of the redirects
RegistriesAfterAttemptMoved(regs, c) ==
    [regs EXCEPT ![c.registry].redirects = Tail(@) \o <<Head(@)>>]

\* h.registries after an attempt: tryRegistry and the loop only read them
RegistriesAfterAttempt(regs, c) == regs

\* the calls an attempt adds to those of the authenticators and of Get
Attempted(out) ==
    /\ authCalls' = Append(authCalls, out.auth)
    /\ getCalls' = IF out.sent THEN Append(getCalls, out.get) ELSE getCalls

\* a loop over registry.redirects that never returns
FoundNever(out) == FALSE

\* whether the loop over registry.redirects returns after this attempt
Found(out) == out.err = "nil"

\* one round of the loop over registry.redirects
DockerTryRedirect ==
    /\ pc = "cascade"
    /\ cascade.next <= Len(registries[cascade.registry].redirects)
    /\ LET redirect == NextRedirect(registries[cascade.registry], cascade)
       IN \E out \in tryRegistry(redirect.Address, redirect.rewriteRepositories,
                                 cascade) :
            /\ Attempted(out)
            /\ cascade' = [cascade EXCEPT !.next = @ + 1]
            /\ IF Found(out)
               THEN /\ returned' = [hijacked |-> TRUE, response |-> out.response,
                                    err |-> "nil"]
                    /\ pc' = "returned"
               ELSE UNCHANGED <<returned, pc>>
    /\ registries' = RegistriesAfterAttempt(registries, cascade)
    /\ UNCHANGED <<proxyVars, config, hijackerKind, sink, pipelineVars, request, nameMode,
                   wrapper, writer>>

\* a RequestHandler that hijacks only what the configured registry had
OriginReturnHijackedWhenFound(out) ==
    [hijacked |-> out.err = "nil", response |-> out.response, err |-> out.err]

\* a RequestHandler that drops the error of the configured registry
OriginReturnNoError(out) ==
    [hijacked |-> TRUE, response |-> out.response, err |-> "nil"]

\* what RequestHandler returns after the attempt on the configured registry
OriginReturn(out) ==
    [hijacked |-> TRUE, response |-> out.response, err |-> out.err]

\* no redirect had it: the attempt on the configured registry itself
DockerTryOrigin ==
    /\ pc = "cascade"
    /\ cascade.next = Len(registries[cascade.registry].redirects) + 1
    /\ \E out \in tryRegistry(registries[cascade.registry].Address, << >>, cascade) :
         /\ Attempted(out)
         /\ cascade' = [cascade EXCEPT !.next = @ + 1]
         /\ returned' = OriginReturn(out)
    /\ pc' = "returned"
    /\ registries' = RegistriesAfterAttempt(registries, cascade)
    /\ UNCHANGED <<proxyVars, config, hijackerKind, sink, pipelineVars, request, nameMode,
                   wrapper, writer>>

\* a RequestHandler that keeps hijacked as returned when err is not nil
EffectiveHijackedKept(ret) == ret.hijacked

\* hijacked, as RequestHandler has it after looking at err
EffectiveHijacked(ret) == IF ret.err # "nil" THEN FALSE ELSE ret.hijacked

\* a RequestHandler that forwards upstream whatever it does not copy
BranchUpstreamElse(h, response) ==
    IF h /\ response # NoResponse THEN "copy" ELSE "upstream"

\* a RequestHandler that forgets to forward upstream
BranchNoUpstream(h, response) ==
    IF h /\ response # NoResponse THEN "copy" ELSE "report"

\* a RequestHandler that waits for the response of a hijacker that replied
\* on the writer itself
BranchWaitsForResponse(h, response) ==
    IF h /\ response # NoResponse THEN "copy"
    ELSE IF ~h THEN "upstream"
    ELSE "returned"

\* the branch RequestHandler takes after the hijacker
Branch(h, response) ==
    IF h /\ response # NoResponse THEN "copy"
    ELSE IF ~h THEN "upstream"
    ELSE "report"

\* a reply that sends the status of the response without its headers
ReplyHeadNoHeaders(w, response) ==
    WriterWriteHeader(w, "pipeline", response.StatusCode)

\* a reply that sets the headers once the status is sent
ReplyHeadStatusFirst(w, response) ==
    SetHeaders(WriterWriteHeader(w, "pipeline", response.StatusCode), "pipeline",
               response.Header)

\* the start of the reply with the hijacker's response: its headers, then
\* its status
ReplyHead(w, response) ==
    WriterWriteHeader(SetHeaders(w, "pipeline", response.Header), "pipeline",
                      response.StatusCode)

\* the hijacker has returned: count its error, then start the branch
Decide ==
    /\ pc = "returned"
    /\ hijacked' = EffectiveHijacked(returned)
    /\ \E e \in Errors :
         metrics' = IF returned.err # "nil"
                    THEN IncrementMetricCounter(metrics, HijackingErrorsCounter,
                             request, hijackerKind, nameMode, sink, e)
                    ELSE metrics
    /\ transforms' = IF returned.err # "nil"
                     THEN Transformed(transforms, HijackingErrorsCounter, sink)
                     ELSE transforms
    /\ pc' = Branch(hijacked', returned.response)
    /\ IF pc' = "copy"
       THEN /\ writer' = ReplyHead(writer, returned.response)
            /\ wrapper' = WrapperWriteHeader(wrapper, returned.response.StatusCode)
            /\ UNCHANGED upstreamReqs
       ELSE IF pc' = "upstream"
       THEN /\ upstreamReqs' = Append(upstreamReqs, request)
            /\ UNCHANGED <<writer, wrapper>>
       ELSE UNCHANGED <<writer, wrapper, upstreamReqs>>
    /\ UNCHANGED <<proxyVars, configVars, request, nameMode, returned, bodyPos,
                   bodyClosed, cascade, authCalls, getCalls>>

\* one round of io.Copy(wrapper, response.Body): read a chunk, write it
CopyChunk ==
    /\ pc = "copy"
    /\ bodyPos < Len(returned.response.Body)
    /\ bodyPos' = bodyPos + 1
    /\ \E res \in WriteResults(returned.response.Body[bodyPos + 1]) :
         /\ writer' = WriterWrite(writer, "pipeline",
                                  returned.response.Body[bodyPos + 1], res.nw)
         /\ wrapper' = WrapperWrite(wrapper, res.nw)
         /\ pc' = IF res.err = "nil" THEN "copy" ELSE "close"
    /\ UNCHANGED <<proxyVars, configVars, request, nameMode, returned, hijacked,
                   bodyClosed, upstreamReqs, metrics, transforms, cascade,
                   authCalls,
                   getCalls>>

\* the body is at its end, io.EOF or a read error: io.Copy returns
CopyEnd ==
    /\ pc = "copy"
    /\ bodyPos = Len(returned.response.Body)
    /\ pc' = "close"
    /\ UNCHANGED <<proxyVars, configVars, pipelineVars, request, nameMode, returned,
                   wrapper, writer, cascade, authCalls, getCalls>>

\* the deferred response.Body.Close()
CloseBody ==
    /\ pc = "close"
    /\ bodyClosed' = bodyClosed + 1
    /\ pc' = "report"
    /\ UNCHANGED <<proxyVars, configVars, request, nameMode, returned, hijacked, wrapper,
                   writer, bodyPos, upstreamReqs, metrics, transforms, cascade,
                   authCalls,
                   getCalls>>

\* the headers and the status a default upstream handler starts with
UpstreamHeads == {[code |-> StatusOK, header |-> BraveHeader],
                  [code |-> StatusNotFound, header |-> NoHeader]}

\* the default upstream handler sets headers and writes a status
UpstreamWriteHeader ==
    /\ pc = "upstream"
    /\ \A i \in 1..Len(writer.calls) : writer.calls[i].by # "upstream"
    /\ \E head \in UpstreamHeads :
         /\ writer' = WriterWriteHeader(SetHeaders(writer, "upstream", head.header),
                                        "upstream", head.code)
         /\ wrapper' = WrapperWriteHeader(wrapper, head.code)
    /\ UNCHANGED <<proxyVars, configVars, pipelineVars, pc, request, nameMode, returned,
                   cascade, authCalls, getCalls>>

\* the number of Writes of the default upstream handler so far
UpstreamWrites == Cardinality({i \in 1..Len(writer.calls) :
                      writer.calls[i].by = "upstream" /\ writer.calls[i].op = "Write"})

\* the default upstream handler writes a chunk of its response
UpstreamWrite ==
    /\ pc = "upstream"
    /\ UpstreamWrites < MaxUpstreamWrites
    /\ \E n \in ChunkSizes : \E res \in WriteResults(n) :
         /\ writer' = WriterWrite(writer, "upstream", n, res.nw)
         /\ wrapper' = WrapperWrite(wrapper, res.nw)
    /\ UNCHANGED <<proxyVars, configVars, pipelineVars, pc, request, nameMode, returned,
                   cascade, authCalls, getCalls>>

\* upstream.ServeHTTP returns
UpstreamReturn ==
    /\ pc = "upstream"
    /\ pc' = "report"
    /\ UNCHANGED <<proxyVars, configVars, pipelineVars, request, nameMode, returned,
                   wrapper, writer, cascade, authCalls, getCalls>>

\* a report that counts hijacked requests as proxied and proxied as hijacked
CounterNameSwapped(h) == IF h THEN ProxiedRequestCounter ELSE HijackedRequestCounter

\* the counter a request is reported under
CounterName(h) == IF h THEN HijackedRequestCounter ELSE ProxiedRequestCounter

\* the pace metric a request is reported under
PaceName(h) == IF h THEN HijackedRequestTransferPace ELSE ProxiedRequestTransferPace

\* whether the pace is reported
PaceReported(written) == ~(written < oneKb)

\* a pace that counts the bytes beyond the last full kilobyte
PacePerByte(elapsed, written) == (elapsed * oneKb) \div written

\* elapsed / time.Duration(wrapper.written/oneKb)
Pace(elapsed, written) == elapsed \div (written \div oneKb)

\* a report that sends the pace before the counter
ReportedPaceFirst(m, h, written, elapsed, req, kind, mode, snk, e1, e2) ==
    LET paced == IF PaceReported(written)
                 THEN ReportMetricDuration(m, PaceName(h), req, kind, mode, snk,
                                           Pace(elapsed, written), e2)
                 ELSE m
    IN IncrementMetricCounter(paced, CounterName(h), req, kind, mode, snk, e1)

\* a report that gives up when the sink did not take the counter
ReportedUntilError(m, h, written, elapsed, req, kind, mode, snk, e1, e2) ==
    LET counted == IncrementMetricCounter(m, CounterName(h), req, kind, mode, snk, e1)
    IN IF PaceReported(written) /\ e1 = "nil"
       THEN ReportMetricDuration(counted, PaceName(h), req, kind, mode, snk,
                                 Pace(elapsed, written), e2)
       ELSE counted

\* what the deferred report sends: the counter, then the pace; e1 and e2
\* are what the sink returns for them
Reported(m, h, written, elapsed, req, kind, mode, snk, e1, e2) ==
    LET counted == IncrementMetricCounter(m, CounterName(h), req, kind, mode, snk, e1)
    IN IF PaceReported(written)
       THEN ReportMetricDuration(counted, PaceName(h), req, kind, mode, snk,
                                 Pace(elapsed, written), e2)
       ELSE counted

\* the names the deferred report asks the hijacker for
ReportTransformed(t, h, written, snk) ==
    LET counted == Transformed(t, CounterName(h), snk)
    IN IF PaceReported(written) THEN Transformed(counted, PaceName(h), snk)
       ELSE counted

\* the deferred report
Report ==
    /\ pc = "report"
    /\ \E elapsed \in ElapsedValues, e1 \in Errors, e2 \in Errors :
         metrics' = Reported(metrics, hijacked, wrapper.written, elapsed,
                             request, hijackerKind, nameMode, sink, e1, e2)
    /\ transforms' = ReportTransformed(transforms, hijacked, wrapper.written, sink)
    /\ pc' = "done"
    /\ UNCHANGED <<proxyVars, configVars, request, nameMode, returned, hijacked, wrapper,
                   writer, bodyPos, bodyClosed, upstreamReqs, cascade,
                   authCalls, getCalls>>

Next ==
    \/ NewDockerRegistryHijacker
    \/ NewRequest
    \/ Return
    \/ GenericDirectReply
    \/ GenericReturn
    \/ DockerRoute
    \/ DockerTryRedirect
    \/ DockerTryOrigin
    \/ Decide
    \/ CopyChunk
    \/ CopyEnd
    \/ CloseBody
    \/ UpstreamWriteHeader
    \/ UpstreamWrite
    \/ UpstreamReturn
    \/ Report

Spec == Init /\ [][Next]_vars

\* a proxy with any hijacker of its own, or with a DockerRegistryHijacker
\* of two rules
LiveInit == Init /\ (hijackerKind = "docker" => config = TwoRulesConfig)

\* the steps of RequestHandler for the request it was given: the hijacker,
\* the default upstream handler and the copy of the body
Handling ==
    \/ GenericDirectReply
    \/ GenericReturn
    \/ DockerRoute
    \/ DockerTryRedirect
    \/ DockerTryOrigin
    \/ Decide
    \/ CopyChunk
    \/ CopyEnd
    \/ CloseBody
    \/ UpstreamWriteHeader
    \/ UpstreamWrite
    \/ UpstreamReturn
    \/ Report

\* the calls RequestHandler makes return, and the goroutine of the request
\* goes on; no request has to come
LiveSpec == LiveInit /\ [][Next]_vars /\ WF_vars(Handling)

\* ------------------------------------------------------------------------
\* MitmProxy.Start, start, startHTTPServer and Stop
\* ------------------------------------------------------------------------

\* the errors of start and of Stop
AlreadyStartedError == "proxy already started"
CAError == "unable to load TLSInfo"
NotStartedError == "Proxy not started yet"
ListenError == "listen error"
AcceptError == "accept error"

\* http.ErrServerClosed, what Serve returns for a server that was shut down
ErrServerClosed == "http: Server closed"

\* a call of start or of Stop that was just made; chan is whether a
\* listeningChan was given, seen the number of servers installed when the
\* call read p.server, installed and local the servers it created and uses
NewCall(op, chan, sawClosed) ==
    [op |-> op, chan |-> chan, sawClosed |-> sawClosed, pc |-> "check",
     seen |-> 0, installed |-> 0, local |-> 0, listened |-> FALSE,
     holding |-> FALSE, serveErr |-> "", result |-> ""]

\* the call returns
Returned(call, result) == [call EXCEPT !.pc = "returned", !.result = result,
                                       !.holding = FALSE]

\* a start that returns whatever Serve returned
ServeResultRaw(err) == err

\* what startHTTPServer returns once Serve has returned err
ServeResult(err) == IF err = ErrServerClosed THEN "nil" ELSE err

\* a goroutine invocations Start, or start with the listeningChan, which one call
\* gets
CallStart ==
    /\ Len(invocations) < MaxCalls
    /\ \E chan \in IF \E c \in 1..Len(invocations) : invocations[c].chan
                  THEN {FALSE} ELSE BOOLEAN :
         invocations' = Append(invocations, NewCall("Start", chan, FALSE))
    /\ UNCHANGED <<requestVars, concurrentVars, server, servers, listeningChan>>

\* a goroutine invocations Stop; it may have seen the listeningChan closed
CallStop ==
    /\ Len(invocations) < MaxCalls
    /\ invocations' = Append(invocations, NewCall("Stop", FALSE, listeningChan.closes > 0))
    /\ UNCHANGED <<requestVars, concurrentVars, server, servers, listeningChan>>

\* start: if p.server != nil
StartCheck(c) ==
    /\ invocations[c].op = "Start"
    /\ invocations[c].pc = "check"
    /\ invocations' = [invocations EXCEPT ![c] =
                   IF server # 0
                   THEN Returned([@ EXCEPT !.seen = Len(servers)],
                                 AlreadyStartedError)
                   ELSE [@ EXCEPT !.seen = Len(servers), !.pc = "loadCA"]]
    /\ UNCHANGED <<requestVars, concurrentVars, server, servers, listeningChan>>

\* start: loadCA fails, or it gives the CA and p.server is set to a new
\* http.Server
StartLoadCA(c) ==
    /\ invocations[c].pc = "loadCA"
    /\ \/ /\ invocations' = [invocations EXCEPT ![c] = Returned(@, CAError)]
          /\ UNCHANGED <<server, servers>>
       \/ /\ servers' = Append(servers, [shutdown |-> FALSE])
          /\ server' = Len(servers) + 1
          /\ invocations' = [invocations EXCEPT ![c] = [@ EXCEPT !.installed = Len(servers) + 1,
                                                     !.pc = "listen"]]
    /\ UNCHANGED <<requestVars, concurrentVars, listeningChan>>

\* startHTTPServer(p.server, ...): net.Listen, which fails when the address
\* is taken, by a listener of this proxy or of another process
StartListen(c) ==
    /\ invocations[c].pc = "listen"
    /\ \/ invocations' = [invocations EXCEPT ![c] = Returned([@ EXCEPT !.local = server],
                                                 ListenError)]
       \/ /\ \A d \in 1..Len(invocations) : ~invocations[d].holding
          /\ invocations' = [invocations EXCEPT ![c] = [@ EXCEPT !.local = server,
                                                     !.listened = TRUE,
                                                     !.holding = TRUE,
                                                     !.pc = "close"]]
    /\ UNCHANGED <<requestVars, concurrentVars, server, servers, listeningChan>>

\* startHTTPServer: close(listeningChan) if it is not nil
StartClose(c) ==
    /\ invocations[c].pc = "close"
    /\ listeningChan' = IF invocations[c].chan
                        THEN [closes |-> listeningChan.closes + 1, closedBy |-> c]
                        ELSE listeningChan
    /\ invocations' = [invocations EXCEPT ![c] = [@ EXCEPT !.pc = "serve"]]
    /\ UNCHANGED <<requestVars, concurrentVars, server, servers>>

\* startHTTPServer: server.Serve(listener), which returns at once for a
\* server that was shut down
StartServe(c) ==
    /\ invocations[c].pc = "serve"
    /\ invocations' = [invocations EXCEPT ![c] =
                   IF servers[invocations[c].local].shutdown
                   THEN Returned([@ EXCEPT !.serveErr = ErrServerClosed],
                                 ServeResult(ErrServerClosed))
                   ELSE [@ EXCEPT !.pc = "serving"]]
    /\ UNCHANGED <<requestVars, concurrentVars, server, servers, listeningChan>>

\* Serve returns, for a Shutdown or for an error of the listener, and
\* startHTTPServer and start return with it
ServeReturn(c) ==
    /\ invocations[c].pc = "serving"
    /\ \E err \in IF servers[invocations[c].local].shutdown
                 THEN {ErrServerClosed} ELSE {AcceptError} :
         invocations' = [invocations EXCEPT ![c] = Returned([@ EXCEPT !.serveErr = err],
                                                ServeResult(err))]
    /\ UNCHANGED <<requestVars, concurrentVars, server, servers, listeningChan>>

\* Stop: if p.server == nil
StopCheck(c) ==
    /\ invocations[c].op = "Stop"
    /\ invocations[c].pc = "check"
    /\ invocations' = [invocations EXCEPT ![c] =
                   IF server = 0
                   THEN Returned([@ EXCEPT !.seen = Len(servers)], NotStartedError)
                   ELSE [@ EXCEPT !.seen = Len(servers), !.local = server,
                                  !.pc = "shutdown"]]
    /\ UNCHANGED <<requestVars, concurrentVars, server, servers, listeningChan>>

\* Stop: p.server.Shutdown(context.Background())
StopShutdown(c) ==
    /\ invocations[c].pc = "shutdown"
    /\ servers' = [servers EXCEPT ![invocations[c].local].shutdown = TRUE]
    /\ invocations' = [invocations EXCEPT ![c] = Returned(@, "nil")]
    /\ UNCHANGED <<requestVars, concurrentVars, server, listeningChan>>

\* a proxy of any hijacker, before any call of Start
LifecycleInit == Init /\ hijackerKind = "generic" /\ ~sink

LifecycleNext ==
    \/ CallStart
    \/ CallStop
    \/ \E c \in 1..Len(invocations) : StartCheck(c)
    \/ \E c \in 1..Len(invocations) : StartLoadCA(c)
    \/ \E c \in 1..Len(invocations) : StartListen(c)
    \/ \E c \in 1..Len(invocations) : StartClose(c)
    \/ \E c \in 1..Len(invocations) : StartServe(c)
    \/ \E c \in 1..Len(invocations) : ServeReturn(c)
    \/ \E c \in 1..Len(invocations) : StopCheck(c)
    \/ \E c \in 1..Len(invocations) : StopShutdown(c)

LifecycleSpec == LifecycleInit /\ [][LifecycleNext]_vars

\* ------------------------------------------------------------------------
\* MitmProxy.RequestHandler for requests handled at the same time, each on
\* its goroutine
\* ------------------------------------------------------------------------

\* what the hijacker returns to these requests: nothing, an error, a
\* response of one chunk, or that it replied itself
ConcurrentReturns ==
    {[hijacked |-> FALSE, response |-> NoResponse, err |-> "nil"],
     [hijacked |-> TRUE, response |-> NoResponse, err |-> "error"],
     [hijacked |-> TRUE, response |-> NoResponse, err |-> "nil"]}
    \cup [hijacked : {TRUE},
          response : [isNil : {FALSE}, StatusCode : {StatusOK},
                      Header : {NoHeader}, Body : {<<1000>>},
                      URL : {<< >>}],
          err : {"nil"}]

\* the request of each of them
ConcurrentRequest == CHOOSE r \in GenericRequests : TRUE

\* one writerWrapper that all the requests share
WrapperOfFirst(h, r) == h[1].wrapper

\* the writerWrapper of request r, a local of its RequestHandler
WrapperOf(h, r) == h[r].wrapper

\* time passes
Tick ==
    /\ now < MaxTime
    /\ now' = now + 1
    /\ UNCHANGED <<requestVars, lifecycleVars, handlers, statsd>>

\* RequestHandler is called for request r: startedAt, the wrapper, and the
\* call of the hijacker
Arrive(r) ==
    /\ handlers[r].pc = "idle"
    /\ handlers' = [handlers EXCEPT ![r] = [@ EXCEPT !.pc = "hijacker",
                                                    !.startedAt = now,
                                                    !.wrapper = FreshWrapper]]
    /\ UNCHANGED <<requestVars, lifecycleVars, statsd, now>>

\* the hijacker returns
HijackerReturns(r) ==
    /\ handlers[r].pc = "hijacker"
    /\ \E ret \in ConcurrentReturns :
         handlers' = [handlers EXCEPT ![r] = [@ EXCEPT !.pc = "returned",
                                                      !.returned = ret]]
    /\ UNCHANGED <<requestVars, lifecycleVars, statsd, now>>

\* the error of the hijacker is counted and the branch is taken
Decides(r) ==
    /\ handlers[r].pc = "returned"
    /\ LET ret == handlers[r].returned
           h == EffectiveHijacked(ret)
       IN /\ statsd' = [statsd EXCEPT ![r] =
                 IF ret.err # "nil"
                 THEN IncrementMetricCounter(@, HijackingErrorsCounter,
                          ConcurrentRequest, "generic", "same", TRUE, "nil")
                 ELSE @]
          /\ handlers' = [handlers EXCEPT ![r] =
                [@ EXCEPT !.hijacked = h,
                          !.pc = Branch(h, ret.response),
                          !.wrapper = IF Branch(h, ret.response) = "copy"
                                      THEN WrapperWriteHeader(WrapperOf(handlers, r),
                                                              ret.response.StatusCode)
                                      ELSE @]]
    /\ UNCHANGED <<requestVars, lifecycleVars, now>>

\* io.Copy writes the next chunk of the body, and ends with the body or
\* with the first Write that fails
Copies(r) ==
    /\ handlers[r].pc = "copy"
    /\ LET body == handlers[r].returned.response.Body
           pos == handlers[r].bodyPos
       IN IF pos = Len(body)
          THEN handlers' = [handlers EXCEPT ![r] = [@ EXCEPT !.pc = "report"]]
          ELSE \E res \in WriteResults(body[pos + 1]) :
                 handlers' = [handlers EXCEPT ![r] =
                    [@ EXCEPT !.bodyPos = pos + 1,
                              !.writes = Append(@, res.nw),
                              !.wrapper = WrapperWrite(WrapperOf(handlers, r), res.nw),
                              !.pc = IF res.err = "nil" THEN "copy" ELSE "report"]]
    /\ UNCHANGED <<requestVars, lifecycleVars, statsd, now>>

\* upstream.ServeHTTP writes a chunk and returns
Upstreams(r) ==
    /\ handlers[r].pc = "upstream"
    /\ \E res \in WriteResults(1000) :
         handlers' = [handlers EXCEPT ![r] =
            [@ EXCEPT !.writes = Append(@, res.nw),
                      !.wrapper = WrapperWrite(WrapperWriteHeader(
                                      WrapperOf(handlers, r), StatusOK), res.nw),
                      !.pc = "report"]]
    /\ UNCHANGED <<requestVars, lifecycleVars, statsd, now>>

\* the deferred report of request r
Reports(r) ==
    /\ handlers[r].pc = "report"
    /\ statsd' = [statsd EXCEPT ![r] =
          Reported(@, handlers[r].hijacked, WrapperOf(handlers, r).written,
                   now - handlers[r].startedAt, ConcurrentRequest, "generic",
                   "same", TRUE, "nil", "nil")]
    /\ handlers' = [handlers EXCEPT ![r] = [@ EXCEPT !.pc = "done",
                                                    !.finishedAt = now]]
    /\ UNCHANGED <<requestVars, lifecycleVars, now>>

\* the next step of the RequestHandler of request r
HandlerStep(r) ==
    \/ HijackerReturns(r)
    \/ Decides(r)
    \/ Copies(r)
    \/ Upstreams(r)
    \/ Reports(r)

\* a proxy with a sink and a hijacker of its own
ConcurrentInit == Init /\ hijackerKind = "generic" /\ sink

ConcurrentNext ==
    \/ Tick
    \/ \E r \in RequestIds : Arrive(r)
    \/ \E r \in RequestIds : HijackerReturns(r)
    \/ \E r \in RequestIds : Decides(r)
    \/ \E r \in RequestIds : Copies(r)
    \/ \E r \in RequestIds : Upstreams(r)
    \/ \E r \in RequestIds : Reports(r)

ConcurrentSpec == ConcurrentInit /\ [][ConcurrentNext]_vars

\* ------------------------------------------------------------------------
\* Properties
\* ------------------------------------------------------------------------

\* the metrics, in the order they were sent, as the pipeline names them
Sent == [i \in 1..Len(metrics) |-> metrics[i].metric]

\* the number of increments of a counter
Increments(name) == Cardinality({i \in 1..Len(metrics) :
                        metrics[i].metric = name /\ metrics[i].method = "Inc"})

\* the places of the timings among the metrics
Timings == {i \in 1..Len(metrics) : metrics[i].method = "TimingDuration"}

RECURSIVE SumWritten(_)
\* the bytes that got out to the client
SumWritten(body) == IF body = << >> THEN 0 ELSE Head(body).n + SumWritten(Tail(body))

\* the calls the writer got from one party
CallsBy(by) == SelectSeq(writer.calls, LAMBDA c : c.by = by)

\* a Write to the client failed
SomeWriteFailed == \E i \in 1..Len(writer.calls) :
                       /\ writer.calls[i].op = "Write"
                       /\ writer.calls[i].arg.nw < writer.calls[i].arg.n

\* every metric gets to the sink under a name that is not empty
MetricsEmitted == sink /\ nameMode = "same"

\* RequestHandler is before its deferred report
BeforeReport == pc \in {"hijacker", "cascade", "returned", "copy", "close",
                        "upstream", "report"}

\* C1: once a request is handled, with a sink and names that are not
\* transformed to empty, exactly one of mitm.hijacked and mitm.proxied was
\* incremented, once: mitm.hijacked iff the hijacker returned hijacked with
\* a nil error, mitm.proxied otherwise; before the report none of them was
C1_ExactlyOneCounter ==
    /\ (pc = "done" /\ MetricsEmitted) =>
          /\ Increments(HijackedRequestCounter) + Increments(ProxiedRequestCounter) = 1
          /\ Increments(HijackedRequestCounter) = 1
                <=> (returned.hijacked /\ returned.err = "nil")
    /\ BeforeReport =>
          Increments(HijackedRequestCounter) + Increments(ProxiedRequestCounter) = 0

\* a hijacked response whose copy to the client failed was counted
C1_Witness ==
    /\ pc = "done" /\ MetricsEmitted
    /\ returned.hijacked /\ returned.err = "nil" /\ returned.response # NoResponse
    /\ SomeWriteFailed
    /\ Increments(HijackedRequestCounter) = 1

\* C2: a request gets at most one pace timing, only once at least 1000
\* bytes got out through the wrapper, and it is mitm.hijacked.pace iff the
\* request's counter is mitm.hijacked, mitm.proxied.pace iff it is
\* mitm.proxied
C2_PaceOnlyFromOneKb ==
    /\ Cardinality(Timings) <= 1
    /\ wrapper.written = SumWritten(writer.body)
    /\ \A i \in Timings :
          /\ SumWritten(writer.body) >= 1000
          /\ metrics[i].metric \in {HijackedRequestTransferPace, ProxiedRequestTransferPace}
          /\ metrics[i].metric = HijackedRequestTransferPace
                <=> Increments(HijackedRequestCounter) = 1
          /\ metrics[i].metric = ProxiedRequestTransferPace
                <=> Increments(ProxiedRequestCounter) = 1

\* a request that wrote exactly 1000 bytes got its pace
C2_Witness ==
    /\ pc = "done"
    /\ SumWritten(writer.body) = 1000
    /\ Timings # {}


\* the registries of the cascade, in the order of the rule: its redirects,
\* then the registry itself
Candidates(registry) ==
    [i \in 1..(Len(registry.redirects) + 1) |->
        IF i <= Len(registry.redirects) THEN registry.redirects[i].Address
        ELSE registry.Address]

\* whether a URL is one of the registry at address
URLOf(url, address) == HasPrefix(url, <<"http://">> \o address \o <<"/">>)

\* the place among the candidates of the registry a URL is one of
CandidateOf(url, cands) == CHOOSE j \in 1..Len(cands) : URLOf(url, cands[j])

C4_OnlyErrorsAndProxied ==
    (pc = "done" /\ MetricsEmitted /\ returned.err # "nil") =>
        Sent = <<HijackingErrorsCounter, ProxiedRequestCounter>>

\* C4, amended: after an error of the hijacker, mitm.hijacked.errors is
\* incremented once, then the default upstream handler is invoked once with
\* the request, then mitm.proxied is incremented, and mitm.hijacked never
\* is; the counters are [mitm.hijacked.errors, mitm.proxied], followed by
\* the mitm.proxied.pace timing iff at least 1000 bytes were written
C4_ErrorsThenProxied ==
    (MetricsEmitted /\ returned.err # "nil") =>
        /\ pc \in {"upstream", "report"} =>
             /\ Sent = <<HijackingErrorsCounter>>
             /\ upstreamReqs = <<request>>
        /\ pc = "done" =>
             /\ upstreamReqs = <<request>>
             /\ Sent = IF wrapper.written >= 1000
                       THEN <<HijackingErrorsCounter, ProxiedRequestCounter,
                              ProxiedRequestTransferPace>>
                       ELSE <<HijackingErrorsCounter, ProxiedRequestCounter>>
             /\ \A i \in 1..Len(metrics) :
                  metrics[i].method = "Inc" <=> i <= 2

\* a hijacker returned hijacked, a response and an error, and the request
\* was forwarded upstream and reported
C4_Witness ==
    /\ pc = "done" /\ MetricsEmitted
    /\ returned.err # "nil" /\ returned.hijacked /\ returned.response # NoResponse
    /\ Len(metrics) = 3

\* the hijacker returned (true, nil, nil)
DirectReply == returned = [hijacked |-> TRUE, response |-> NoResponse, err |-> "nil"]

\* C5: when the hijacker returns (true, nil, nil) the default upstream
\* handler is never invoked, the pipeline itself calls nothing on the
\* writer, and the only counter incremented is mitm.hijacked
C5_DirectReplyLeftAlone ==
    (DirectReply /\ pc \in {"returned", "report", "done"}) =>
        /\ upstreamReqs = << >>
        /\ \A i \in 1..Len(writer.calls) : writer.calls[i].by = "hijacker"
        /\ \A i \in 1..Len(metrics) :
             metrics[i].method = "Inc" => metrics[i].metric = HijackedRequestCounter
        /\ (pc = "done" /\ MetricsEmitted) => Increments(HijackedRequestCounter) = 1
        /\ pc # "returned" => hijacked

\* a direct reply of the hijacker was reported
C5_Witness ==
    /\ DirectReply
    /\ pc = "done" /\ MetricsEmitted
    /\ writer.body # << >>

\* the hijacker returned (true, response, nil) with a response
ResponseReturned ==
    /\ returned.hijacked
    /\ returned.response # NoResponse
    /\ returned.err = "nil"

\* C6: when the hijacker returns (true, response, nil) the client gets the
\* status of the response, every header of the response with the values of
\* the response, and, when no Write fails, the chunks of the body of the
\* response in order; the default upstream handler is never invoked
C6_ResponseCopied ==
    (ResponseReturned /\ pc \in {"copy", "close", "report", "done"}) =>
        /\ writer.status = returned.response.StatusCode
        /\ \A key \in DOMAIN returned.response.Header :
             /\ key \in DOMAIN writer.sent
             /\ writer.sent[key] = returned.response.Header[key]
        /\ upstreamReqs = << >>
        /\ ~SomeWriteFailed =>
             [i \in 1..Len(writer.body) |-> writer.body[i].n]
                 = SubSeq(returned.response.Body, 1, bodyPos)
        /\ (~SomeWriteFailed /\ pc # "copy") =>
             bodyPos = Len(returned.response.Body)

\* a response of status 404 with a header and a body of two different
\* chunks was copied to the client
C6_Witness ==
    /\ ResponseReturned
    /\ pc = "done"
    /\ returned.response.StatusCode = StatusNotFound
    /\ returned.response.Header = BraveHeader
    /\ returned.response.Body = <<1000, 1>>
    /\ ~SomeWriteFailed

\* the hijacker returned (false, nil, nil)
NotHijacked == returned = [hijacked |-> FALSE, response |-> NoResponse, err |-> "nil"]

\* what a client gets from the calls of one party alone on a fresh writer
RECURSIVE Replay(_, _)
Replay(w, calls) ==
    IF calls = << >> THEN w
    ELSE LET c == Head(calls)
         IN Replay(CASE c.op = "Header" -> SetHeaders(w, c.by, c.arg)
                     [] c.op = "WriteHeader" -> WriterWriteHeader(w, c.by, c.arg)
                     [] c.op = "Write" -> WriterWrite(w, c.by, c.arg.n, c.arg.nw),
                   Tail(calls))

\* C7: when the hijacker returns (false, nil, nil) the default upstream
\* handler is invoked exactly once, with the request, and the pipeline
\* writes nothing: the client gets what the calls of the handler give
C7_UpstreamAlone ==
    (NotHijacked /\ pc \in {"upstream", "report", "done"}) =>
        /\ upstreamReqs = <<request>>
        /\ \A i \in 1..Len(writer.calls) : writer.calls[i].by = "upstream"
        /\ writer = Replay(FreshWriter, CallsBy("upstream"))
        /\ ~hijacked

\* a request passed through, and the handler answered it with a status, a
\* header and a body
C7_Witness ==
    /\ NotHijacked
    /\ pc = "done"
    /\ writer.status = StatusOK
    /\ writer.sent = BraveHeader
    /\ Len(writer.body) = 2

\* C8 as stated: the body of every response the hijacker returned is closed
\* exactly once before RequestHandler returns
C8_BodyClosedOnce ==
    (pc = "done" /\ returned.response # NoResponse) => bodyClosed = 1

\* C9: the counter of a request comes right before its pace, and both come
\* after the streaming: until the deferred report no metric but
\* mitm.hijacked.errors is sent
C9_ReportAfterStreaming ==
    /\ BeforeReport =>
         \A i \in 1..Len(metrics) : metrics[i].metric = HijackingErrorsCounter
    /\ \A i \in Timings :
         /\ i > 1
         /\ metrics[i - 1].method = "Inc"
         /\ metrics[i - 1].metric \in {HijackedRequestCounter, ProxiedRequestCounter}
         /\ pc \in {"done", "idle"}

\* a response was streamed, then counted, then its pace was sent
C9_Witness ==
    /\ pc = "done"
    /\ ResponseReturned
    /\ Len(writer.body) = 2
    /\ Len(metrics) = 2
    /\ metrics[1].metric = HijackedRequestCounter
    /\ metrics[2].metric = HijackedRequestTransferPace

\* C10: in the branch of a returned response the pipeline first sets the
\* headers of the response, then calls WriteHeader with its status, and only
\* then writes the body; it calls WriteHeader exactly once
C10_HeadBeforeBody ==
    (ResponseReturned /\ pc \in {"copy", "close", "report", "done"}) =>
        LET calls == CallsBy("pipeline")
        IN /\ Len(calls) >= 2
           /\ calls[1].op = "Header" /\ calls[1].arg = returned.response.Header
           /\ calls[2].op = "WriteHeader"
           /\ calls[2].arg = returned.response.StatusCode
           /\ \A i \in 3..Len(calls) : calls[i].op = "Write"
           /\ Len(calls) = 2 + bodyPos

\* the body of a response was written after its head
C10_Witness ==
    /\ ResponseReturned
    /\ pc = "done"
    /\ Len(CallsBy("pipeline")) = 4
    /\ writer.body # << >>

\* the hijacker has returned to RequestHandler
HijackerReturned == pc \in {"returned", "copy", "close", "upstream", "report", "done"}

\* the requests a DockerRegistryHijacker is said to let through: another
\* method than GET, a trimmed path that does not begin with /v2, a host no
\* rule is for, or a path that is neither the handshake nor a registry query
LetThrough(req, regs) ==
    \/ req.Method # "GET"
    \/ ~HasPrefix(TrimRight(req.Path, "/"), <<"/", "v2">>)
    \/ \A i \in 1..Len(regs) : ~RuleMatches(regs[i], req.Host)
    \/ /\ TrimRight(req.Path, "/") # <<"/", "v2">>
       /\ RouteMatches(req.Path) = {}

C12_PassThroughTouchesNothing ==
    (hijackerKind = "docker" /\ HijackerReturned) =>
       /\ ~returned.hijacked =>
             /\ CallsBy("hijacker") = << >>
             /\ authCalls = << >>
             /\ getCalls = << >>
       /\ returned.response # NoResponse => CallsBy("hijacker") = << >>
       /\ (pc = "returned" /\ (~returned.hijacked \/ returned.response # NoResponse)) =>
             (writer = FreshWriter /\ wrapper = FreshWrapper)

\* the third registry asked had the blob, and the writer is as it was
C12_Witness ==
    /\ hijackerKind = "docker"
    /\ pc = "returned"
    /\ returned.response # NoResponse
    /\ Len(authCalls) = 3
    /\ writer = FreshWriter

\* a GET of the /v2 handshake to the host of a rule
Handshake(req, regs) ==
    /\ req.Method = "GET"
    /\ TrimRight(req.Path, "/") = <<"/", "v2">>
    /\ \E i \in 1..Len(regs) : RuleMatches(regs[i], req.Host)

\* the hijacker answered the handshake: status 200, then the 2 bytes of {}
HandshakeWritten ==
    /\ Len(CallsBy("hijacker")) = 2
    /\ CallsBy("hijacker")[1].op = "WriteHeader"
    /\ CallsBy("hijacker")[1].arg = 200
    /\ CallsBy("hijacker")[2].op = "Write"
    /\ CallsBy("hijacker")[2].arg.n = 2
    /\ writer.status = 200
    /\ authCalls = << >>
    /\ getCalls = << >>

\* the same path to a host of no rule is let through, the writer untouched
HandshakeOfNoRule ==
    (/\ hijackerKind = "docker"
     /\ HijackerReturned
     /\ request.Method = "GET"
     /\ TrimRight(request.Path, "/") = <<"/", "v2">>
     /\ ~Handshake(request, registries)) =>
        (NotHijacked /\ CallsBy("hijacker") = << >>)

\* C13, as stated: the handshake to the host of a rule is answered with 200
\* and {} and (true, nil, nil) is returned, without any authenticator call
\* or HTTP request; to a host of no rule it is let through
C13_HandshakeReturnsNil ==
    /\ (hijackerKind = "docker" /\ HijackerReturned /\ Handshake(request, registries)) =>
          (HandshakeWritten /\ DirectReply)
    /\ HandshakeOfNoRule

\* C13, amended: the handshake to the host of a rule is answered with 200
\* and {} and (true, nil, err) is returned, err being the error of the Write
\* of {}, nil when all of it was written, without any authenticator call or
\* HTTP request; to a host of no rule it is let through
C13_HandshakeReturnsWriteError ==
    /\ (hijackerKind = "docker" /\ HijackerReturned /\ Handshake(request, registries)) =>
          /\ HandshakeWritten
          /\ returned.hijacked
          /\ returned.response = NoResponse
          /\ returned.err = "nil" <=> CallsBy("hijacker")[2].arg.nw = 2
    /\ HandshakeOfNoRule

\* the handshake to the host of a rule was answered and counted as hijacked
C13_Witness ==
    /\ hijackerKind = "docker"
    /\ pc = "done"
    /\ Handshake(request, registries)
    /\ DirectReply
    /\ writer.status = 200
    /\ upstreamReqs = << >>

\* C14: a rule with a matching_regex is the rule of a request only when its
\* regex matches the host of the request, also when the host is the address
\* of the rule
C14_RegexSupersedesAddress ==
    (/\ hijackerKind = "docker"
     /\ cascade.active
     /\ registries[cascade.registry].matchingRegex # NoRegex) =>
        request.Host \in registries[cascade.registry].matchingRegex.matches

\* C15: the rule of a request is the first of the rules that match its
\* host, and the registries asked are the redirects and the address of that
\* rule, never those of a later rule
C15_FirstMatchingRule ==
    (hijackerKind = "docker" /\ cascade.active) =>
       LET cands == Candidates(registries[cascade.registry])
       IN /\ RuleMatches(registries[cascade.registry], request.Host)
          /\ \A j \in 1..(cascade.registry - 1) :
                ~RuleMatches(registries[j], request.Host)
          /\ \A i \in 1..Len(authCalls) : authCalls[i].address = cands[i]
          /\ \A k \in 1..Len(getCalls) :
                \E i \in 1..Len(cands) : URLOf(getCalls[k].url, cands[i])

\* two rules are for the host, and the redirect and the address of the
\* first were asked
C15_Witness ==
    /\ hijackerKind = "docker"
    /\ HijackerReturned
    /\ cascade.active
    /\ Cardinality({i \in 1..Len(registries) :
                       RuleMatches(registries[i], request.Host)}) = 2
    /\ authCalls # << >>
    /\ authCalls[1].address = RedirectA
    /\ Len(authCalls) = 2
    /\ authCalls[2].address = DockerIo

\* the rewrite rule of the i-th registry asked: that of the redirect, and
\* none for the registry of the rule itself
RewriteRuleOf(registry, i) ==
    IF i <= Len(registry.redirects) THEN registry.redirects[i].rewriteRepositories
    ELSE << >>

\* C16: for every repository r and tag t, rewriting with the template %r:%t
\* gives r, a colon, then t, and rewriting without a template gives r
C16_RewriteSubstitutes ==
    (hijackerKind = "docker" /\ cascade.active) =>
       \A i \in 1..Len(authCalls) :
          LET rule == RewriteRuleOf(registries[cascade.registry], i)
          IN /\ rule = <<"%r", ":", "%t">> =>
                   authCalls[i].repository = cascade.repository \o <<":">> \o cascade.tag
             /\ rule = << >> => authCalls[i].repository = cascade.repository

\* C17: a redirect with a template is authenticated for, and asked for, the
\* rewritten repository, with the query type and the tag of the request; a
\* redirect without a template and the registry of the rule get the
\* repository of the request, whatever the redirects before them had
C17_RewrittenRepositoryUsed ==
    (hijackerKind = "docker" /\ cascade.active) =>
       LET registry == registries[cascade.registry]
           cands == Candidates(registry)
           parsed == parseRegistryURLPath(request.Path)
           Rewritten(i) == IF RewriteRuleOf(registry, i) = << >> THEN parsed.repository
                           ELSE rewriteRepository(RewriteRuleOf(registry, i),
                                                  parsed.repository, parsed.tag)
       IN /\ \A i \in 1..Len(authCalls) : authCalls[i].repository = Rewritten(i)
          /\ \A k \in 1..Len(getCalls) :
                LET i == CandidateOf(getCalls[k].url, cands)
                IN getCalls[k].url =
                      <<"http://">> \o cands[i] \o <<"/", "v2", "/">> \o Rewritten(i)
                         \o <<"/", parsed.queryType, "s", "/">> \o parsed.tag

\* a redirect with a template was asked for the rewritten repository, and
\* the redirect after it and the registry of the rule for that of the request
C17_Witness ==
    /\ hijackerKind = "docker"
    /\ cascade.active
    /\ Len(authCalls) = 4
    /\ Len(getCalls) = 4
    /\ authCalls[2].repository = <<"u", ":", "18">>
    /\ getCalls[2].url = <<"http://", "b", ":", "80", "/", "v2", "/", "u", ":", "18",
                           "/", "blob", "s", "/", "18">>
    /\ authCalls[3].repository = <<"u">>
    /\ getCalls[4].url = <<"http://", "d", ".", "io", "/", "v2", "/", "u",
                           "/", "blob", "s", "/", "18">>

\* C18: a registry whose Authenticate failed gets no HTTP request, and after
\* a redirect whose Authenticate failed the next registry is tried: the
\* hijacker does not return on it
C18_AuthFailureSkips ==
    (hijackerKind = "docker" /\ cascade.active) =>
       LET cands == Candidates(registries[cascade.registry])
       IN \A i \in 1..Len(authCalls) :
             authCalls[i].err # "nil" =>
                /\ \A k \in 1..Len(getCalls) : ~URLOf(getCalls[k].url, cands[i])
                /\ (i < Len(cands) /\ HijackerReturned) => Len(authCalls) > i
                /\ (i < Len(cands) /\ Len(authCalls) = i) =>
                      (pc = "cascade" /\ returned = NoReturn)

\* the first redirect could not be authenticated to, and the second one,
\* asked next, had the blob
C18_Witness ==
    /\ hijackerKind = "docker"
    /\ cascade.active
    /\ HijackerReturned
    /\ Len(authCalls) = 2
    /\ authCalls[1].err = AuthError
    /\ Len(getCalls) = 1
    /\ URLOf(getCalls[1].url, RedirectB)
    /\ returned.response # NoResponse

\* C19: the hijacker returns (true, response, nil) as soon as a GET
\* succeeds: a GET that succeeded is the last one, that of the last registry
\* authenticated to, its response is the one returned, and a response is
\* only returned from such a GET
C19_FirstSuccessReturned ==
    (hijackerKind = "docker" /\ cascade.active) =>
       LET cands == Candidates(registries[cascade.registry])
           n == Len(getCalls)
       IN /\ \A k \in 1..n :
                getCalls[k].err = "nil" =>
                   /\ k = n
                   /\ URLOf(getCalls[k].url, cands[Len(authCalls)])
                   /\ HijackerReturned
                   /\ returned.hijacked
                   /\ returned.err = "nil"
                   /\ returned.response # NoResponse
                   /\ returned.response.URL = getCalls[k].url
          /\ (HijackerReturned /\ returned.response # NoResponse) =>
                (n > 0 /\ getCalls[n].err = "nil")

\* the GET to the first redirect failed, that to the second succeeded and
\* the third was not asked
C19_Witness ==
    /\ hijackerKind = "docker"
    /\ cascade.active
    /\ pc = "done"
    /\ Len(registries[cascade.registry].redirects) = 3
    /\ Len(authCalls) = 2
    /\ Len(getCalls) = 2
    /\ getCalls[1].err = GetError
    /\ getCalls[2].err = "nil"
    /\ returned.response # NoResponse

\* every redirect failed, and so did the registry of the rule
AllFailed ==
    /\ hijackerKind = "docker"
    /\ cascade.active
    /\ HijackerReturned
    /\ Len(authCalls) = Len(registries[cascade.registry].redirects) + 1
    /\ \/ authCalls[Len(authCalls)].err # "nil"
       \/ getCalls # << >> /\ getCalls[Len(getCalls)].err # "nil"

\* the error of the attempt on the registry of the rule
OriginError == IF authCalls[Len(authCalls)].err # "nil" THEN AuthError
               ELSE getCalls[Len(getCalls)].err

\* C20, as stated: when every redirect and the registry of the rule fail
\* the hijacker returns (true, nil, err) with the error of the last attempt,
\* the metrics of the request are [mitm.hijacked.errors, mitm.proxied] and
\* the client gets the response of the default upstream handler
C20_AllFailedTwoMetrics ==
    AllFailed =>
       /\ returned = [hijacked |-> TRUE, response |-> NoResponse, err |-> OriginError]
       /\ (pc = "done" /\ sink) =>
             /\ Sent = <<HijackingErrorsCounter, ProxiedRequestCounter>>
             /\ upstreamReqs = <<request>>
             /\ writer = Replay(FreshWriter, CallsBy("upstream"))

\* C20, amended: when every redirect and the registry of the rule fail the
\* hijacker returns (true, nil, err) with the error of the last attempt, the
\* metrics of the request are [mitm.hijacked.errors, mitm.proxied], followed
\* by the mitm.proxied.pace timing iff at least 1000 bytes were written, and
\* the client gets the response of the default upstream handler
C20_AllFailedProxied ==
    AllFailed =>
       /\ returned = [hijacked |-> TRUE, response |-> NoResponse, err |-> OriginError]
       /\ pc \notin {"copy", "close"}
       /\ pc = "done" =>
             /\ upstreamReqs = <<request>>
             /\ writer = Replay(FreshWriter, CallsBy("upstream"))
             /\ sink =>
                  Sent = <<HijackingErrorsCounter, ProxiedRequestCounter>>
                         \o (IF SumWritten(writer.body) >= 1000
                             THEN <<ProxiedRequestTransferPace>> ELSE << >>)
             /\ ~sink => metrics = << >>

\* three redirects and the registry of the rule failed, the last one at
\* its GET, and the default upstream handler answered the client
C20_Witness ==
    /\ AllFailed
    /\ pc = "done"
    /\ sink
    /\ Len(authCalls) = 4
    /\ authCalls[1].err = AuthError
    /\ returned.err = GetError
    /\ Len(metrics) = 2
    /\ writer.body # << >>

\* C21: a registry that answers 404 is a failed attempt: its GET has an
\* error, the next registry is tried after a redirect that answered 404, and
\* the response returned is the 200 answer of the last registry asked, all
\* the registries asked before it having failed
C21_NotFoundIsFailure ==
    (hijackerKind = "docker" /\ cascade.active) =>
       LET cands == Candidates(registries[cascade.registry])
           n == Len(getCalls)
       IN /\ \A k \in 1..n :
                getCalls[k].status = 404 =>
                   /\ getCalls[k].err # "nil"
                   /\ (CandidateOf(getCalls[k].url, cands) < Len(cands)
                          /\ HijackerReturned) =>
                         Len(authCalls) > CandidateOf(getCalls[k].url, cands)
                   /\ (HijackerReturned /\ returned.response # NoResponse) =>
                         returned.response.URL # getCalls[k].url
          /\ (HijackerReturned /\ returned.response # NoResponse) =>
                /\ returned.response.StatusCode = 200
                /\ n > 0
                /\ getCalls[n].status = 200
                /\ returned.response.URL = getCalls[n].url
                /\ \A k \in 1..(n - 1) : getCalls[k].status # 200

\* two redirects answered 404 and the third had the image
C21_Witness ==
    /\ hijackerKind = "docker"
    /\ cascade.active
    /\ pc = "done"
    /\ Len(getCalls) = 3
    /\ getCalls[1].status = 404
    /\ getCalls[2].status = 404
    /\ getCalls[3].status = 200
    /\ returned.response # NoResponse
    /\ URLOf(returned.response.URL, RedirectC)

\* C22: the headers sent with the GET to every registry asked, redirect or
\* origin, are one map made before the first attempt, that of the first
\* value of every header key of the request, and the request still has the
\* headers it came with: the default upstream handler gets it as it came
C22_HeadersSnapshot ==
    (hijackerKind = "docker" /\ cascade.active) =>
       LET snapshot == [key \in DOMAIN request.Header |-> Head(request.Header[key])]
       IN /\ cascade.requestHeaders = snapshot
          /\ \A k \in 1..Len(getCalls) : getCalls[k].headers = snapshot
          /\ request \in DockerRequests
          /\ \A i \in 1..Len(upstreamReqs) : upstreamReqs[i] = request

\* a request with two values for a header was asked to a redirect and to
\* the origin, each time with the first value
C22_Witness ==
    /\ hijackerKind = "docker"
    /\ cascade.active
    /\ request.Header = DoubleMeHeader
    /\ Len(getCalls) = 2
    /\ \A k \in 1..2 : getCalls[k].headers = [doubleme |-> "28"]
    /\ URLOf(getCalls[1].url, RedirectA)
    /\ URLOf(getCalls[2].url, DockerIo)

\* a host with every dot replaced by an underscore
Underscored(host) == [i \in 1..Len(host) |-> IF host[i] = "." THEN "_" ELSE host[i]]

\* the name a DockerRegistryHijacker is said to give a metric of the
\* request, the query type being followed by plural or not
DockerNameOf(metric, plural) ==
    IF metric \in {HijackedRequestTransferPace, ProxiedRequestTransferPace}
    THEN metric \o <<".">> \o Underscored(request.Host)
            \o (IF RouteMatches(request.Path) = {} THEN << >>
                ELSE <<".", parseRegistryURLPath(request.Path).queryType>> \o plural)
    ELSE metric

\* C23, as stated: with a DockerRegistryHijacker the counters are sent
\* under their own names, and a pace under its name, a dot, the host with
\* underscores for dots and, for a registry query, .manifests or .blobs
C23_PaceNamePlural ==
    hijackerKind = "docker" =>
       \A i \in 1..Len(metrics) :
          metrics[i].name = DockerNameOf(metrics[i].metric, <<"s">>)

\* C23, amended: with a DockerRegistryHijacker the counters are sent under
\* their own names, and a pace under its name, a dot, the host with
\* underscores for dots and, for a registry query, .manifest or .blob
C23_PaceNameSingular ==
    hijackerKind = "docker" =>
       \A i \in 1..Len(metrics) :
          /\ metrics[i].name = DockerNameOf(metrics[i].metric, << >>)
          /\ metrics[i].method = "Inc" =>
                metrics[i].metric \in {HijackedRequestCounter, ProxiedRequestCounter,
                                       HijackingErrorsCounter}

\* the pace of a hijacked blob query was sent with the host and the query
\* type in its name, after a counter under its own name
C23_Witness ==
    /\ hijackerKind = "docker"
    /\ pc = "done"
    /\ Len(metrics) = 2
    /\ metrics[1].name = <<"mitm.hijacked">>
    /\ metrics[2].name = <<"mitm.hijacked.pace", ".", "d", "_", "io", ".", "blob">>

\* the name the sink gets for a metric of the request: what the hijacker
\* makes of it, trimmed
NameFor(metric) ==
    TrimSpace(TransformMetricName(metric, request, hijackerKind, nameMode))

\* C24: without a sink nothing is sent and TransformMetricName is never
\* called; with a sink the hijacker is asked for every metric, the metrics
\* whose name is empty once trimmed are dropped, and the others are sent, in
\* order, under that name: a counter as Inc(name, 1, 1), a pace as
\* TimingDuration(name, d, 1)
C24_EmittedWithSinkAndName ==
    /\ ~sink => (metrics = << >> /\ transforms = << >>)
    /\ Sent = SelectSeq(transforms, LAMBDA metric : NameFor(metric) # << >>)
    /\ \A i \in 1..Len(metrics) :
          /\ metrics[i].name = NameFor(metrics[i].metric)
          /\ metrics[i].name # << >>
          /\ metrics[i].rate = 1
          /\ metrics[i].method = "Inc" <=>
                metrics[i].metric \in {HijackedRequestCounter, ProxiedRequestCounter,
                                       HijackingErrorsCounter}
          /\ metrics[i].method = "TimingDuration" <=>
                metrics[i].metric \in {HijackedRequestTransferPace,
                                       ProxiedRequestTransferPace}
          /\ metrics[i].method = "Inc" => metrics[i].value = 1
    /\ (pc = "done" /\ sink) => transforms # << >>
    /\ nameMode = "blank" => metrics = << >>

\* a hijacker gave a name within spaces, and a counter and a pace were sent
\* under that name without them
C24_Witness ==
    /\ pc = "done"
    /\ nameMode = "padded"
    /\ Len(transforms) = 2
    /\ Len(metrics) = 2
    /\ metrics[1].name = <<"transformed_metric">>
    /\ metrics[1].method = "Inc"
    /\ metrics[2].name = <<"transformed_metric">>
    /\ metrics[2].method = "TimingDuration"

\* the sink returned an error for one of the metrics of the request
SinkFailed == \E i \in 1..Len(metrics) : metrics[i].err # "nil"

\* C25: whatever the sink returned for a metric, the request is handled as
\* the triple of the hijacker says: a response is copied and closed without
\* the default upstream handler, a request that is not hijacked goes to it
\* once, untouched by the pipeline, and the report sends the counter and,
\* from 1000 bytes written, the pace, also after a counter the sink refused
C25_SinkErrorsSwallowed ==
    SinkFailed =>
       LET h == returned.hijacked /\ returned.err = "nil"
           copied == h /\ returned.response # NoResponse
       IN /\ pc \in {"copy", "close", "upstream", "report", "done"}
          /\ hijacked = h
          /\ copied =>
                /\ upstreamReqs = << >>
                /\ pc \in {"report", "done"} => bodyClosed = 1
          /\ ~h =>
                /\ upstreamReqs = <<request>>
                /\ bodyClosed = 0
                /\ CallsBy("pipeline") = << >>
          /\ (h /\ ~copied) => (upstreamReqs = << >> /\ CallsBy("pipeline") = << >>)
          /\ pc = "done" =>
                Sent = (IF returned.err # "nil" THEN <<HijackingErrorsCounter>> ELSE << >>)
                       \o <<IF h THEN HijackedRequestCounter ELSE ProxiedRequestCounter>>
                       \o (IF SumWritten(writer.body) >= 1000
                           THEN <<IF h THEN HijackedRequestTransferPace
                                  ELSE ProxiedRequestTransferPace>>
                           ELSE << >>)

\* the sink refused the counter of a hijacked response, and the pace was
\* sent to it all the same, the body closed
C25_Witness ==
    /\ pc = "done"
    /\ Len(metrics) = 2
    /\ metrics[1].method = "Inc"
    /\ metrics[1].err = "error"
    /\ metrics[2].method = "TimingDuration"
    /\ metrics[2].metric = HijackedRequestTransferPace
    /\ bodyClosed = 1

\* a configuration NewDockerRegistryHijacker is said to reject: a rule
\* without redirects, with a pattern that does not compile, or with a
\* registry or a redirect no authenticator can be built for
Rejected(cfg) ==
    \E i \in 1..Len(cfg) :
       \/ cfg[i].Redirects = << >>
       \/ cfg[i].MatchingRegex = BadPattern
       \/ cfg[i].Security = "bad"
       \/ \E j \in 1..Len(cfg[i].Redirects) : cfg[i].Redirects[j].Security = "bad"

\* C26: NewDockerRegistryHijacker gives an error and no hijacker for a
\* configuration with a rule without redirects, with a pattern that does
\* not compile or with an authenticator that cannot be built; the hijacker
\* it gives otherwise has the rules of the configuration, each with at least
\* one redirect and with its redirects in the order of the configuration
C26_BadConfigRejected ==
    (hijackerKind = "docker" /\ pc # "new") =>
       /\ Rejected(config) => (pc = "failed" /\ registries = << >>)
       /\ pc = "failed" => Rejected(config)
       /\ pc # "failed" =>
             /\ Len(registries) = Len(config)
             /\ \A i \in 1..Len(registries) :
                   /\ Len(registries[i].redirects) >= 1
                   /\ Len(registries[i].redirects) = Len(config[i].Redirects)
                   /\ \A j \in 1..Len(registries[i].redirects) :
                         /\ registries[i].redirects[j].Address
                               = config[i].Redirects[j].Address
                         /\ registries[i].redirects[j].rewriteRepositories
                               = config[i].Redirects[j].RewriteRepositories

\* a configuration whose second rule has no redirect gave no hijacker
C26_Witness ==
    /\ hijackerKind = "docker"
    /\ config = NoRedirectsConfig
    /\ pc = "failed"
    /\ registries = << >>

\* C27: a hijacker that NewDockerRegistryHijacker gave has no empty
\* address, in its rules and in their redirects, and no registry of an
\* empty address is ever asked
C27_AddressesNotEmpty ==
    (hijackerKind = "docker" /\ pc \notin {"new", "failed"}) =>
       /\ \A i \in 1..Len(registries) :
             /\ registries[i].Address # << >>
             /\ \A j \in 1..Len(registries[i].redirects) :
                   registries[i].redirects[j].Address # << >>
       /\ \A k \in 1..Len(authCalls) : authCalls[k].address # << >>

\* C28: for one request every registry of the rule is asked at most once,
\* for one Authenticate and at most one GET, and the hijacker has returned
\* once the last of the len(redirects) + 1 registries was asked
C28_OneAttemptPerCandidate ==
    (hijackerKind = "docker" /\ cascade.active) =>
       LET cands == Candidates(registries[cascade.registry])
       IN /\ Len(authCalls) <= Len(cands)
          /\ Len(getCalls) <= Len(authCalls)
          /\ \A i \in 1..Len(cands) :
                /\ Cardinality({k \in 1..Len(authCalls) :
                                   authCalls[k].address = cands[i]}) <= 1
                /\ Cardinality({k \in 1..Len(getCalls) :
                                   URLOf(getCalls[k].url, cands[i])}) <= 1
          /\ Len(authCalls) = Len(cands) => HijackerReturned
          /\ pc = "cascade" => Len(authCalls) < Len(cands)

\* three redirects and the registry of the rule were asked, once each, and
\* the hijacker returned the error of the last
C28_Witness ==
    /\ hijackerKind = "docker"
    /\ cascade.active
    /\ pc = "returned"
    /\ Len(authCalls) = 4
    /\ Len(getCalls) = 4
    /\ returned.err # "nil"

\* C29: when a Write of the copy of a hijacked response fails, the copy
\* stops there, the default upstream handler is not invoked, the body is
\* closed, the request is counted as mitm.hijacked, and the pace is sent iff
\* the bytes that got out before the failure are 1000 at least, computed
\* from them
C29_CopyFailureStaysHijacked ==
    (ResponseReturned /\ SomeWriteFailed) =>
       /\ pc \in {"close", "report", "done"}
       /\ hijacked
       /\ upstreamReqs = << >>
       /\ bodyClosed = IF pc = "close" THEN 0 ELSE 1
       /\ writer.calls[Len(writer.calls)].op = "Write"
       /\ writer.calls[Len(writer.calls)].arg.nw < writer.calls[Len(writer.calls)].arg.n
       /\ wrapper.written = SumWritten(writer.body)
       /\ (pc = "done" /\ sink /\ nameMode # "blank") =>
             /\ Increments(HijackedRequestCounter) = 1
             /\ Increments(ProxiedRequestCounter) = 0
             /\ Increments(HijackingErrorsCounter) = 0
             /\ Timings # {} <=> SumWritten(writer.body) >= 1000
             /\ \A i \in Timings :
                   /\ metrics[i].metric = HijackedRequestTransferPace
                   /\ \E elapsed \in ElapsedValues :
                         metrics[i].value
                            = elapsed \div (SumWritten(writer.body) \div 1000)

\* the copy failed on its second chunk, after 1000 bytes, and the pace of
\* these was sent
C29_Witness ==
    /\ ResponseReturned
    /\ SomeWriteFailed
    /\ pc = "done"
    /\ Len(writer.calls) >= 2
    /\ SumWritten(writer.body) >= 1000
    /\ bodyClosed = 1
    /\ Timings # {}

\* C30: the rules of a DockerRegistryHijacker stay those that
\* NewDockerRegistryHijacker built from the configuration, whatever the
\* requests handled, and the rule of a request is the one these rules give
\* its host
C30_RulesNeverChange ==
    (hijackerKind = "docker" /\ pc \notin {"new", "failed"}) =>
       /\ registries = buildRegistryWrappers(config).registries
       /\ cascade.active =>
             cascade.registry
                = matchingRegistry(buildRegistryWrappers(config).registries,
                                   request.Host)

\* a request went through three redirects and the registry of the rule, and
\* the rules are as they were built
C30_Witness ==
    /\ hijackerKind = "docker"
    /\ pc = "done"
    /\ config = OneRuleConfig
    /\ registries = OneRule
    /\ Len(authCalls) = 4

\* C33: the tag of a registry query is taken from the path without its
\* trailing '/': the tag a cascade keeps does not end in '/', and neither
\* does a URL asked of a registry
C33_TagTrimmed ==
    (hijackerKind = "docker" /\ cascade.active) =>
       /\ cascade.tag # << >>
       /\ cascade.tag[Len(cascade.tag)] # "/"
       /\ \A k \in 1..Len(getCalls) :
             getCalls[k].url[Len(getCalls[k].url)] # "/"

\* C34: the default upstream handler is not invoked for a request once the
\* hijacker has written a status or bytes on the writer of that request
C34_NoUpstreamAfterHijackerWrote ==
    upstreamReqs # << >> => CallsBy("hijacker") = << >>

\* the full kilobytes in a number of bytes
FullKilobytes(written) ==
    CHOOSE d \in 0..(MaxChunks + MaxUpstreamWrites) :
       d * 1000 <= written /\ written < (d + 1) * 1000

\* C35: when the pace is computed at least 1000 bytes were written, so that
\* the divisor is 1 at least, and the pace sent is the elapsed time divided,
\* as integers, by the number of full kilobytes written: 1000 and 1999 bytes
\* give the same pace
C35_PaceByFullKilobytes ==
    (pc = "done" /\ Timings # {}) =>
       /\ wrapper.written >= 1000
       /\ FullKilobytes(wrapper.written) >= 1
       /\ \A i \in Timings :
             \E elapsed \in ElapsedValues :
                /\ metrics[i].value * FullKilobytes(wrapper.written) <= elapsed
                /\ elapsed < (metrics[i].value + 1) * FullKilobytes(wrapper.written)
       /\ \A elapsed \in ElapsedValues :
             Pace(elapsed, 1999) = Pace(elapsed, 1000)

\* 1999 bytes were written in 3000 units of time and the pace sent is 3000
C35_Witness ==
    /\ pc = "done"
    /\ wrapper.written = 1999
    /\ \E i \in Timings : metrics[i].value = 3000

\* C32: a request given to RequestHandler gets to the end of the deferred
\* report, where its counter was sent, whatever the hijacker returned and
\* whatever the writes did, as long as the hijacker, the default upstream
\* handler and the copy return
C32_ReachesReport ==
    (pc = "hijacker") ~>
       (pc = "done" /\ (MetricsEmitted =>
           Increments(HijackedRequestCounter) + Increments(ProxiedRequestCounter) = 1))

\* a request whose hijacker failed, handed to the default upstream handler,
\* whose write failed, is reported
C32_Witness ==
    /\ pc = "done"
    /\ returned.err # "nil"
    /\ upstreamReqs # << >>
    /\ SomeWriteFailed
    /\ Increments(ProxiedRequestCounter) = 1

\* C36: Stop returns "Proxy not started yet" iff no Start had got past
\* loading the CA when Stop looked; a Start whose CA loading fails installs
\* no server; a Start that looks once a Start has got past loading the CA
\* returns "proxy already started" and creates no server, after a Stop and
\* after a failed bind as well; and at most one server is ever installed
C36_OneServerEver ==
    /\ \A c \in 1..Len(invocations) :
          LET call == invocations[c]
          IN /\ (call.op = "Stop" /\ call.pc = "returned") =>
                   (call.result = NotStartedError <=> call.seen = 0)
             /\ (call.op = "Start" /\ call.result = CAError) =>
                   call.installed = 0
             /\ (call.op = "Start" /\ call.pc # "check" /\ call.seen >= 1) =>
                   (call.result = AlreadyStartedError /\ call.installed = 0)
    /\ (\A c \in 1..Len(invocations) : invocations[c].result = CAError) =>
          server = 0
    /\ Len(servers) <= 1

RECURSIVE SumOf(_)
\* the sum of a sequence of numbers
SumOf(s) == IF s = << >> THEN 0 ELSE Head(s) + SumOf(Tail(s))

\* the points the sink got for request r, in their order
PointsOf(r) == statsd[r]

\* the points that the outcome of request r alone calls for, once its
\* hijacker has returned and once it is reported
ErrorPointsOf(r) ==
    IF handlers[r].returned.err # "nil"
    THEN IncrementMetricCounter(<< >>, HijackingErrorsCounter, ConcurrentRequest,
                                "generic", "same", TRUE, "nil")
    ELSE << >>
ReportPointsOf(r) ==
    Reported(<< >>, EffectiveHijacked(handlers[r].returned),
             SumOf(handlers[r].writes),
             handlers[r].finishedAt - handlers[r].startedAt, ConcurrentRequest,
             "generic", "same", TRUE, "nil", "nil")

\* C31: with requests handled at the same time, the RequestHandler of a
\* request that is not yet reported can take its next step wherever the
\* others are, its byte count is that of its own writes, and the points the
\* sink gets for it are those of its own outcome, bytes and time
C31_RequestsDoNotInterfere ==
    \A r \in RequestIds :
       /\ handlers[r].pc \notin {"idle", "done"} => ENABLED HandlerStep(r)
       /\ handlers[r].wrapper.written = SumOf(handlers[r].writes)
       /\ handlers[r].pc \in {"idle", "hijacker", "returned"} =>
             PointsOf(r) = << >>
       /\ handlers[r].pc \in {"copy", "upstream", "report"} =>
             PointsOf(r) = ErrorPointsOf(r)
       /\ handlers[r].pc = "done" =>
             PointsOf(r) = ErrorPointsOf(r) \o ReportPointsOf(r)

\* the first request is still in its hijacker; the second came later, had
\* 1000 bytes written at least and is reported with its counter and its pace
C31_Witness ==
    /\ handlers[1].pc = "hijacker"
    /\ handlers[2].pc = "done"
    /\ handlers[2].startedAt > handlers[1].startedAt
    /\ handlers[2].wrapper.written >= 1000
    /\ Len(PointsOf(2)) = 2
    /\ PointsOf(2)[2].metric = HijackedRequestTransferPace

====
